---- MODULE Spec2Model ----
(***************************************************************************)
(* Daily indicator pipeline of ai-stock-selector: the Celery tasks that    *)
(* ingest bars, compute the technical indicators of a target date, upsert  *)
(* them into technical_indicators and record the attempt in                *)
(* data_update_logs.                                                       *)
(*                                                                         *)
(* Numbers are fixed point: a float x is the integer x * Unit.  A value is *)
(* a record [k, v]: k = "none" is Python None, k = "nan" is the float NaN  *)
(* TA-Lib writes before an indicator's lookback is satisfied, k = "num" is *)
(* the number v / Unit.                                                    *)
(***************************************************************************)
EXTENDS Integers, Sequences, FiniteSets, TLC

\* ------------------------------------------------------------------ bounds
NumStocks == 2
MaxBars == 26
MaxRuns == 2
MaxFaults == 1
MaxUniverse == 11
MaxPeriod == 5
MaxLen == 17
NumSymbols == 6
MaxHistory == 2
MaxLoad == 4
MaxClock == 3

\* ------------------------------------------------------- program constants
Unit == 10 * 10 * 10
MinBars == 20
max_retries == 3
CountdownBase == 60
BackendHistoryLimit == 60
CollectorHistoryLimit == 240
AllIndicatorsLimit == 60
BackendStockLimit == 10
MAX_CONCURRENT_REQUESTS == 5

Stocks == 1..NumStocks
TargetDate == MaxBars + 1

None == [k |-> "none", v |-> 0]
NaN == [k |-> "nan", v |-> 0]
Num(x) == [k |-> "num", v |-> x]
IsNum(x) == x.k = "num"

Abs(x) == IF x < 0 THEN -x ELSE x
Min2(a, b) == IF a < b THEN a ELSE b
Max2(a, b) == IF a > b THEN a ELSE b

RECURSIVE SumRange(_, _, _)
SumRange(xs, lo, hi) == IF lo > hi THEN 0 ELSE xs[hi] + SumRange(xs, lo, hi - 1)

RECURSIVE MinRange(_, _, _)
MinRange(xs, lo, hi) ==
    IF lo = hi THEN xs[lo]
    ELSE Min2(xs[hi], MinRange(xs, lo, hi - 1))

RECURSIVE MaxRange(_, _, _)
MaxRange(xs, lo, hi) ==
    IF lo = hi THEN xs[lo]
    ELSE Max2(xs[hi], MaxRange(xs, lo, hi - 1))

\* Seeded fault: the short-input result holds NaN where it should hold None.
NoneList_NaN(n) == [i \in 1..n |-> NaN]

\* [None] * n
NoneList(n) == [i \in 1..n |-> None]

\* ------------------------------------------------ TA-Lib style primitives
\* talib.SMA: NaN before the lookback, then the mean of the trailing window.
SMA(xs, p) ==
    [i \in 1..Len(xs) |->
        IF i < p THEN NaN ELSE Num(SumRange(xs, i - p + 1, i) \div p)]

\* talib.EMA seeded by the simple average of the first p values of the
\* range that starts at index first.
\* one step of the exponential average with smoothing 2 / (p + 1)
Smooth(prev, x, p) == prev + (2 * (x - prev)) \div (p + 1)

RECURSIVE EMAFrom(_, _, _, _)
EMAFrom(xs, p, first, i) ==
    IF i = first + p - 1 THEN SumRange(xs, first, i) \div p
    ELSE Smooth(EMAFrom(xs, p, first, i - 1), xs[i], p)

EMA(xs, p) ==
    [i \in 1..Len(xs) |-> IF i < p THEN NaN ELSE Num(EMAFrom(xs, p, 1, i))]

\* talib.MACD main line: both averages start at the slow lookback.
MACDLine(xs, fast, slow, i) ==
    EMAFrom(xs, fast, slow - fast + 1, i) - EMAFrom(xs, slow, 1, i)

RECURSIVE MACDSignal(_, _, _, _, _)
MACDSignal(xs, fast, slow, sig, i) ==
    IF i = slow + sig - 1
    THEN LET RECURSIVE S(_)
             S(j) == IF j < slow THEN 0 ELSE MACDLine(xs, fast, slow, j) + S(j - 1)
         IN S(i) \div sig
    ELSE Smooth(MACDSignal(xs, fast, slow, sig, i - 1), MACDLine(xs, fast, slow, i), sig)

\* talib.RSI with Wilder smoothing; avg gains and losses in Unit.
RECURSIVE WilderAvg(_, _, _, _)
WilderAvg(xs, p, i, gain) ==
    LET Delta(j) == xs[j] - xs[j - 1]
        Part(j) == IF gain THEN (IF Delta(j) > 0 THEN Delta(j) ELSE 0)
                   ELSE (IF Delta(j) < 0 THEN -Delta(j) ELSE 0)
        RECURSIVE First(_)
        First(j) == IF j < 2 THEN 0 ELSE Part(j) + First(j - 1)
    IN IF i = p + 1 THEN First(i) \div p
       ELSE (WilderAvg(xs, p, i - 1, gain) * (p - 1) + Part(i)) \div p

\* Seeded fault: the ratio of the averages is scaled, not their share.
RSI_Ratio(xs, p) ==
    [i \in 1..Len(xs) |->
        IF i <= p THEN NaN
        ELSE LET g == WilderAvg(xs, p, i, TRUE)
                 l == WilderAvg(xs, p, i, FALSE)
             IN IF l = 0 THEN Num(100 * Unit) ELSE Num((100 * Unit * g) \div l)]

RSI(xs, p) ==
    [i \in 1..Len(xs) |->
        IF i <= p THEN NaN
        ELSE LET g == WilderAvg(xs, p, i, TRUE)
                 l == WilderAvg(xs, p, i, FALSE)
             IN IF g + l = 0 THEN Num(0) ELSE Num((100 * Unit * g) \div (g + l))]

\* integer square root, for the population standard deviation of BBANDS
ISqrt(x) == CHOOSE r \in 0..x : r * r <= x /\ x < (r + 1) * (r + 1)

StdDev(xs, p, i) ==
    LET mean == SumRange(xs, i - p + 1, i) \div p
        RECURSIVE Sq(_)
        Sq(j) == IF j < i - p + 1 THEN 0
                 ELSE (xs[j] - mean) * (xs[j] - mean) + Sq(j - 1)
    IN ISqrt(Sq(i) \div p)

\* talib.STOCH fast %K of one bar; 0 on a flat range.
FastK(hs, ls, cs, p, i) ==
    LET hh == MaxRange(hs, i - p + 1, i)
        ll == MinRange(ls, i - p + 1, i)
    IN IF hh = ll THEN 0 ELSE (100 * Unit * (cs[i] - ll)) \div (hh - ll)

SlowK(hs, ls, cs, kp, dp, i) ==
    LET RECURSIVE S(_)
        S(j) == IF j < i - dp + 1 THEN 0 ELSE FastK(hs, ls, cs, kp, j) + S(j - 1)
    IN S(i) \div dp

SlowD(hs, ls, cs, kp, dp, i) ==
    LET RECURSIVE S(_)
        S(j) == IF j < i - dp + 1 THEN 0 ELSE SlowK(hs, ls, cs, kp, dp, j) + S(j - 1)
    IN S(i) \div dp

\* ------------------------------------------------- TechnicalIndicators
\* Arguments are Python lists: prices are floats (Unit-scaled), volumes ints.
\* talib.SMA takes periods from 2 up and raises on any other; the except
\* clause turns that into the list of None
calculate_ma(prices, period) ==
    IF Len(prices) < period THEN NoneList(Len(prices))
    ELSE IF period < 2 THEN NoneList(Len(prices))
    ELSE SMA(prices, period)

calculate_ema(prices, period) ==
    IF Len(prices) < period THEN NoneList(Len(prices)) ELSE EMA(prices, period)

calculate_rsi(prices, period) ==
    IF Len(prices) < period THEN NoneList(Len(prices)) ELSE RSI(prices, period)

calculate_macd(prices, fast, slow, signal) ==
    IF Len(prices) < slow
    THEN [macd |-> NoneList(Len(prices)), signal |-> NoneList(Len(prices)),
          histogram |-> NoneList(Len(prices))]
    ELSE LET first == slow + signal - 1
             M(i) == MACDLine(prices, fast, slow, i)
             S(i) == MACDSignal(prices, fast, slow, signal, i)
         IN [macd |-> [i \in 1..Len(prices) |-> IF i < first THEN NaN ELSE Num(M(i))],
             signal |-> [i \in 1..Len(prices) |-> IF i < first THEN NaN ELSE Num(S(i))],
             histogram |-> [i \in 1..Len(prices) |->
                              IF i < first THEN NaN ELSE Num(M(i) - S(i))]]

calculate_bollinger_bands(prices, period, std) ==
    IF Len(prices) < period
    THEN [upper |-> NoneList(Len(prices)), middle |-> NoneList(Len(prices)),
          lower |-> NoneList(Len(prices))]
    ELSE LET Mid(i) == SumRange(prices, i - period + 1, i) \div period
             Dev(i) == std * StdDev(prices, period, i)
         IN [upper |-> [i \in 1..Len(prices) |->
                          IF i < period THEN NaN ELSE Num(Mid(i) + Dev(i))],
             middle |-> [i \in 1..Len(prices) |->
                          IF i < period THEN NaN ELSE Num(Mid(i))],
             lower |-> [i \in 1..Len(prices) |->
                          IF i < period THEN NaN ELSE Num(Mid(i) - Dev(i))]]

calculate_stochastic(high_prices, low_prices, close_prices, k_period, d_period) ==
    IF Len(high_prices) < k_period
    THEN [k |-> NoneList(Len(close_prices)), d |-> NoneList(Len(close_prices))]
    ELSE LET first == k_period + 2 * (d_period - 1)
         IN [k |-> [i \in 1..Len(close_prices) |->
                      IF i < first THEN NaN
                      ELSE Num(SlowK(high_prices, low_prices, close_prices,
                                     k_period, d_period, i))],
             d |-> [i \in 1..Len(close_prices) |->
                      IF i < first THEN NaN
                      ELSE Num(SlowD(high_prices, low_prices, close_prices,
                                     k_period, d_period, i))]]

calculate_volume_ma(volumes, period) ==
    IF Len(volumes) < period THEN NoneList(Len(volumes))
    ELSE IF period < 2 THEN NoneList(Len(volumes))
    ELSE SMA([i \in 1..Len(volumes) |-> volumes[i] * Unit], period)

\* Seeded fault: the levels start one bar before the window is full.
calculate_support_resistance_Early(high_prices, low_prices, close_prices, period) ==
    IF Len(close_prices) < period
    THEN [support |-> NoneList(Len(close_prices)),
          resistance |-> NoneList(Len(close_prices))]
    ELSE [support |-> [i \in 1..Len(close_prices) |->
                         IF i < period - 1 THEN None
                         ELSE Num(MinRange(low_prices, Max2(1, i - period + 1), i))],
          resistance |-> [i \in 1..Len(close_prices) |->
                         IF i < period - 1 THEN None
                         ELSE Num(MaxRange(high_prices, Max2(1, i - period + 1), i))]]

calculate_support_resistance(high_prices, low_prices, close_prices, period) ==
    IF Len(close_prices) < period
    THEN [support |-> NoneList(Len(close_prices)),
          resistance |-> NoneList(Len(close_prices))]
    ELSE [support |-> [i \in 1..Len(close_prices) |->
                         IF i < period THEN None
                         ELSE Num(MinRange(low_prices, i - period + 1, i))],
          resistance |-> [i \in 1..Len(close_prices) |->
                         IF i < period THEN None
                         ELSE Num(MaxRange(high_prices, i - period + 1, i))]]

calculate_price_momentum(prices, period) ==
    IF Len(prices) < period THEN NoneList(Len(prices))
    ELSE [i \in 1..Len(prices) |->
            IF i <= period THEN None
            ELSE IF prices[i - period] # 0
                 THEN Num(((prices[i] - prices[i - period]) * 100 * Unit)
                          \div prices[i - period])
                 ELSE None]

calculate_volume_ratio(volumes, period) ==
    LET volume_ma == calculate_volume_ma(volumes, period)
    IN [i \in 1..Len(volumes) |->
          IF volume_ma[i] = None THEN None
          ELSE IF volume_ma[i] = NaN THEN NaN
          ELSE IF volume_ma[i].v # 0
               THEN Num((volumes[i] * Unit * Unit) \div volume_ma[i].v)
               ELSE None]

calculate_williams_r(high_prices, low_prices, close_prices, period) ==
    IF Len(close_prices) < period THEN NoneList(Len(close_prices))
    ELSE [i \in 1..Len(close_prices) |->
            IF i < period THEN NaN
            ELSE LET hh == MaxRange(high_prices, i - period + 1, i)
                     ll == MinRange(low_prices, i - period + 1, i)
                 IN IF hh = ll THEN Num(0)
                    ELSE Num(0 - ((100 * Unit * (hh - close_prices[i])) \div (hh - ll)))]

EmptyDict == [x \in {} |-> None]

\* Keys calculate_all_indicators always sets, and those it sets only when
\* the high/low lists, or the volume list, are not empty.
BaseKeys ==
    {"ma_5", "ma_10", "ma_20", "ma_60", "ma_120", "ma_240", "ema_12", "ema_26",
     "rsi_14", "macd", "macd_signal", "macd_histogram",
     "bb_upper", "bb_middle", "bb_lower", "price_momentum"}
HighLowKeys == {"k_value", "d_value", "support_level", "resistance_level", "williams_r"}
VolumeKeys == {"volume_ma_5", "volume_ma_20", "volume_ratio"}

calculate_all_indicators(stock_data) ==
    IF "close" \notin DOMAIN stock_data \/ stock_data.close = <<>> THEN EmptyDict
    ELSE
    LET c == stock_data.close
        h == stock_data.high
        l == stock_data.low
        vol == stock_data.volume
        macd_data == calculate_macd(c, 12, 26, 9)
        bb_data == calculate_bollinger_bands(c, 20, 2)
        kd_data == calculate_stochastic(h, l, c, 14, 3)
        sr_data == calculate_support_resistance(h, l, c, 20)
        keys == BaseKeys
                \cup (IF h # <<>> /\ l # <<>> THEN HighLowKeys ELSE {})
                \cup (IF vol # <<>> THEN VolumeKeys ELSE {})
    IN [key \in keys |->
          CASE key = "ma_5" -> calculate_ma(c, 5)
            [] key = "ma_10" -> calculate_ma(c, 10)
            [] key = "ma_20" -> calculate_ma(c, 20)
            [] key = "ma_60" -> calculate_ma(c, 60)
            [] key = "ma_120" -> calculate_ma(c, 120)
            [] key = "ma_240" -> calculate_ma(c, 240)
            [] key = "ema_12" -> calculate_ema(c, 12)
            [] key = "ema_26" -> calculate_ema(c, 26)
            [] key = "rsi_14" -> calculate_rsi(c, 14)
            [] key = "macd" -> macd_data.macd
            [] key = "macd_signal" -> macd_data.signal
            [] key = "macd_histogram" -> macd_data.histogram
            [] key = "bb_upper" -> bb_data.upper
            [] key = "bb_middle" -> bb_data.middle
            [] key = "bb_lower" -> bb_data.lower
            [] key = "k_value" -> kd_data.k
            [] key = "d_value" -> kd_data.d
            [] key = "volume_ma_5" -> calculate_volume_ma(vol, 5)
            [] key = "volume_ma_20" -> calculate_volume_ma(vol, 20)
            [] key = "volume_ratio" -> calculate_volume_ratio(vol, 5)
            [] key = "support_level" -> sr_data.support
            [] key = "resistance_level" -> sr_data.resistance
            [] key = "price_momentum" -> calculate_price_momentum(c, 10)
            [] key = "williams_r" -> calculate_williams_r(h, l, c, 14)]

DateVal(d) == [k |-> "date", v |-> d]
IntVal(n) == [k |-> "int", v |-> n]

\* dates.index(target_date): the first position holding the date
IndexOf(dates, d) == CHOOSE i \in 1..Len(dates) :
                        dates[i] = d /\ \A j \in 1..(i - 1) : dates[j] # d

\* result = {'trade_date': target_date}, then every list of all_indicators
\* that reaches target_idx gives its value there
ValuesAt(all_indicators, target_idx, target_date) ==
    [key \in {"trade_date"} \cup
             {x \in DOMAIN all_indicators :
                 target_idx <= Cardinality(DOMAIN all_indicators[x])} |->
        IF key = "trade_date" THEN DateVal(target_date)
        ELSE all_indicators[key][target_idx]]

calculate_indicator_for_date(stock_data, target_date) ==
    IF "dates" \notin DOMAIN stock_data THEN EmptyDict
    ELSE IF \A i \in 1..Len(stock_data.dates) : stock_data.dates[i] # target_date
    THEN EmptyDict
    ELSE ValuesAt(calculate_all_indicators(stock_data),
                  IndexOf(stock_data.dates, target_date), target_date)

\* sorted(price_records, key=trade_date): a stable insertion sort
RECURSIVE SortByDate(_)
SortByDate(recs) ==
    IF recs = <<>> THEN <<>>
    ELSE LET rest == SortByDate(SubSeq(recs, 1, Len(recs) - 1))
             x == recs[Len(recs)]
             pos == Cardinality({i \in 1..Len(rest) : rest[i].trade_date <= x.trade_date})
         IN SubSeq(rest, 1, pos) \o <<x>> \o SubSeq(rest, pos + 1, Len(rest))

\* [f(record) for record in records]
RECURSIVE Column(_, _)
Column(records, field) ==
    IF records = <<>> THEN <<>>
    ELSE Append(Column(SubSeq(records, 1, Len(records) - 1), field),
                records[Len(records)][field])

\* A record that lacks one of the attributes read makes the comprehension
\* raise; the except clause returns {}
prepare_stock_data_for_indicators(price_records) ==
    IF price_records = <<>> THEN EmptyDict
    ELSE IF \E i \in 1..Len(price_records) :
               ~({"trade_date", "open_price", "high_price", "low_price",
                   "close_price", "volume"} \subseteq DOMAIN price_records[i])
    THEN EmptyDict
    ELSE LET sorted_records == SortByDate(price_records)
         IN [dates |-> Column(sorted_records, "trade_date"),
             open |-> Column(sorted_records, "open_price"),
             high |-> Column(sorted_records, "high_price"),
             low |-> Column(sorted_records, "low_price"),
             close |-> Column(sorted_records, "close_price"),
             volume |-> Column(sorted_records, "volume")]

\* ------------------------------------------------------------ the tables
\* technical_indicators: the columns of TechnicalIndicator
IndicatorColumns ==
    {"ma_5", "ma_10", "ma_20", "ma_60", "ma_120", "ma_240", "ema_12", "ema_26",
     "rsi_14", "macd", "macd_signal", "macd_histogram", "k_value", "d_value",
     "bb_upper", "bb_middle", "bb_lower", "volume_ma_5", "volume_ma_20",
     "support_level", "resistance_level"}
MetaColumns == {"id", "stock_id", "symbol", "trade_date", "created_at"}
TechnicalIndicator == IndicatorColumns \cup MetaColumns

\* Numeric(p, 2): round half away from zero to a hundredth
RoundDecimal2(x) ==
    LET q == Unit \div 100
    IN IF x >= 0 THEN ((x + q \div 2) \div q) * q
       ELSE 0 - (((0 - x) + q \div 2) \div q) * q

\* float to BIGINT: round to the nearest integer, ties to even
RoundBigInt(x) ==
    LET lo == (x \div Unit) * Unit
        r == x - lo
    IN IF 2 * r < Unit THEN lo
       ELSE IF 2 * r > Unit THEN lo + Unit
       ELSE IF (lo \div Unit) % 2 = 0 THEN lo ELSE lo + Unit

\* what a committed column holds for the value the session wrote
StoreValue(col, val) ==
    IF ~IsNum(val) THEN val
    ELSE IF col \in {"macd", "macd_signal", "macd_histogram"} THEN val
    ELSE IF col \in {"volume_ma_5", "volume_ma_20"} THEN Num(RoundBigInt(val.v))
    ELSE Num(RoundDecimal2(val.v))

StoreRow(row) ==
    [col \in DOMAIN row |->
        IF col \in IndicatorColumns THEN StoreValue(col, row[col]) ELSE row[col]]

\* the bar an upstream source reports for a stock and a date
BarOf(s, d) ==
    LET c == 10 * Unit * s + Unit + 10 * d + 40 * (d % 2)
    IN [stock_id |-> s, trade_date |-> d, open_price |-> c - 10,
        high_price |-> c + 50, low_price |-> c - 50, close_price |-> c,
        volume |-> 1000 + 7 * d]

OtherVal == Num(77 * Unit)

StoredRow(id, s, d, kind) ==
    [col \in TechnicalIndicator |->
        CASE col = "id" -> IntVal(id)
          [] col = "stock_id" -> IntVal(s)
          [] col = "symbol" -> IntVal(s)
          [] col = "trade_date" -> DateVal(d)
          [] col = "created_at" -> IntVal(0)
          [] OTHER -> IF kind = "other" THEN OtherVal ELSE None]

\* What one stock looks like before the first task runs: whether it is
\* active, how many bars it has on or before the target date, whether one of
\* them is on the target date, and whether another job has already stored an
\* indicator row for the target date.
Profiles ==
    << [active |-> TRUE, bars |-> MinBars, target |-> TRUE, row |-> "none"],
       [active |-> TRUE, bars |-> MinBars, target |-> TRUE, row |-> "other"],
       [active |-> TRUE, bars |-> MaxBars, target |-> TRUE, row |-> "other"],
       [active |-> TRUE, bars |-> MinBars - 1, target |-> TRUE, row |-> "none"],
       [active |-> TRUE, bars |-> MaxBars, target |-> FALSE, row |-> "none"],
       [active |-> TRUE, bars |-> MinBars, target |-> TRUE, row |-> "empty"],
       [active |-> FALSE, bars |-> MinBars, target |-> TRUE, row |-> "other"] >>

\* the stocks take consecutive profiles, starting anywhere in the list
ProfileOf(shift, s) == Profiles[((s + shift - 1) % Len(Profiles)) + 1]

RECURSIVE InitPrices(_, _)
InitPrices(prof, s) ==
    IF s = 0 THEN <<>>
    ELSE LET last == IF prof[s].target THEN TargetDate ELSE TargetDate - 1
             first == last - prof[s].bars + 1
         IN InitPrices(prof, s - 1) \o [i \in 1..prof[s].bars |-> BarOf(s, first + i - 1)]

RECURSIVE InitIndicators(_, _)
InitIndicators(prof, s) ==
    IF s = 0 THEN <<>>
    ELSE LET rest == InitIndicators(prof, s - 1)
         IN IF prof[s].row = "none" THEN rest
            ELSE Append(rest, StoredRow(Len(rest) + 1, s, TargetDate, prof[s].row))

\* ------------------------------------------------------------- queries
Reverse(seq) == [i \in 1..Len(seq) |-> seq[Len(seq) - i + 1]]

\* .order_by(trade_date.desc()).limit(n).all()
LatestBars(bars, s, upto, n) ==
    LET Mine(b) == b.stock_id = s /\ b.trade_date <= upto
        asc == SortByDate(SelectSeq(bars, Mine))
        k == Min2(n, Len(asc))
    IN Reverse(SubSeq(asc, Len(asc) - k + 1, Len(asc)))

\* .filter(stock_id == s, trade_date == d).first(): position of the row, 0 if none
FirstIndicator(table, s, d) ==
    LET hits == {i \in 1..Len(table) :
                    table[i]["stock_id"] = IntVal(s) /\ table[i]["trade_date"] = DateVal(d)}
    IN IF hits = {} THEN 0 ELSE CHOOSE i \in hits : \A j \in hits : i <= j

HasBar(bars, s, d) == \E i \in 1..Len(bars) : bars[i].stock_id = s /\ bars[i].trade_date = d

RECURSIVE SetToSeq(_)
SetToSeq(S) == IF S = {} THEN <<>>
               ELSE LET x == CHOOSE y \in S : \A z \in S : y <= z
                    IN <<x>> \o SetToSeq(S \ {x})

\* ------------------------------------------------------------- the upsert
\* Seeded fault: the merge also writes the nulls it computed.
MergeRow_Nulls(existing, indicators_) ==
    [col \in DOMAIN existing |->
        IF col \in DOMAIN indicators_ THEN indicators_[col] ELSE existing[col]]

\* Seeded fault: every merge also stamps the row, as an onupdate column would.
MergeRow_Stamped(existing, indicators_) ==
    [col \in DOMAIN existing |->
        IF col = "created_at" THEN IntVal(existing[col].v + 1)
        ELSE IF col \in DOMAIN indicators_ /\ indicators_[col] # None
        THEN indicators_[col] ELSE existing[col]]

\* for key, value in indicators.items():
\*     if hasattr(existing, key) and value is not None: setattr(existing, key, value)
MergeRow(existing, indicators_) ==
    [col \in DOMAIN existing |->
        IF col \in DOMAIN indicators_ /\ indicators_[col] # None
        THEN indicators_[col] ELSE existing[col]]

\* Seeded fault: the constructor takes every keyword argument.
ConstructorAccepts_Any(kwargs) == kwargs = kwargs

\* The declarative constructor takes only keyword arguments that name an
\* attribute of the mapped class and raises TypeError on any other.
ConstructorAccepts(kwargs) == kwargs \subseteq TechnicalIndicator

\* TechnicalIndicator(stock_id=stock.id, symbol=stock.symbol, **indicators)
NewIndicator(s, indicators_) ==
    [col \in TechnicalIndicator |->
        IF col \in DOMAIN indicators_ THEN indicators_[col]
        ELSE IF col \in {"stock_id", "symbol"} THEN IntVal(s)
        ELSE None]

\* the session's view of a stored row: the object it has already modified,
\* or the committed row
SessionRow(table, sess, idx) ==
    IF \E e \in sess.dirty : e.idx = idx
    THEN (CHOOSE e \in sess.dirty : e.idx = idx).row
    ELSE table[idx]

\* Seeded fault: the merged values are added as a new row, the stored row
\* stays as it was.
Upsert_AddsRow(table, sess, s, d, indicators_) ==
    LET idx == FirstIndicator(table, s, d)
    IN IF idx # 0
       THEN [status |-> "ok",
             sess |-> [sess EXCEPT !.pending =
                          Append(@, MergeRow(table[idx], indicators_))]]
       ELSE IF ConstructorAccepts(DOMAIN indicators_)
       THEN [status |-> "ok",
             sess |-> [sess EXCEPT !.pending = Append(@, NewIndicator(s, indicators_))]]
       ELSE [status |-> "error", sess |-> sess]

\* the existence check and the update-or-insert that follows it
Upsert(table, sess, s, d, indicators_) ==
    LET idx == FirstIndicator(table, s, d)
    IN IF idx # 0
       THEN [status |-> "ok",
             sess |-> [sess EXCEPT !.dirty =
                          {e \in sess.dirty : e.idx # idx} \cup
                          {[idx |-> idx,
                            row |-> MergeRow(SessionRow(table, sess, idx), indicators_)]}]]
       ELSE IF ConstructorAccepts(DOMAIN indicators_)
       THEN [status |-> "ok",
             sess |-> [sess EXCEPT !.pending = Append(@, NewIndicator(s, indicators_))]]
       ELSE [status |-> "error", sess |-> sess]

\* stock_data = prepare_stock_data_for_indicators(records), then the keys of
\* calculate_all_indicators(stock_data) and the indicators of the date
Compute(records, target_date) ==
    LET stock_data == prepare_stock_data_for_indicators(records)
    IN [all_ |-> DOMAIN calculate_all_indicators(stock_data),
        at |-> calculate_indicator_for_date(stock_data, target_date)]

\* The histories the queries return while every stored bar is one the
\* upstream source reported: n bars of a stock ending at date last, newest
\* first.  The daily task reverses the list and computes the target date,
\* the recomputation passes it as queried and computes its newest date.
History(s, last, n) == [i \in 1..n |-> BarOf(s, last - i + 1)]
HistoryDate(last, kind) == IF kind = "daily" THEN TargetDate ELSE last
Arranged(historical, kind) == IF kind = "daily" THEN Reverse(historical) ELSE historical

\* Compute of those histories, evaluated once
Known ==
    [s \in Stocks |-> [last \in (TargetDate - 1)..TargetDate |->
        [n \in MinBars..(MaxBars + 1) |-> [kind \in {"daily", "all"} |->
            Compute(Arranged(History(s, last, n), kind), HistoryDate(last, kind))]]]]

\* Compute(Arranged(historical, kind), target_date), taken from Known when
\* the history is one of those
Computed(historical, kind, target_date) ==
    LET s == historical[1].stock_id
        last == historical[1].trade_date
        n == Len(historical)
    IN IF /\ s \in Stocks
          /\ last \in (TargetDate - 1)..TargetDate
          /\ n \in MinBars..(MaxBars + 1)
          /\ target_date = HistoryDate(last, kind)
          /\ historical = History(s, last, n)
       THEN Known[s][last][n][kind]
       ELSE Compute(Arranged(historical, kind), target_date)

\* One pass of the loop body of calculate_daily_technical_indicators.
\* status: "ok" reached processed_count += 1, "skip" left by continue,
\* "error" left through the except clause.
\* if not indicators: continue, else the upsert
StoreComputed(table, sess, s, d, indicators_) ==
    IF DOMAIN indicators_ = {} THEN [status |-> "skip", sess |-> sess]
    ELSE Upsert(table, sess, s, d, indicators_)

\* Seeded fault: a history shorter than MinBars raises instead of continuing.
UpdateStock_ShortRaises(table, bars, sess, s, target_date, limit, raised) ==
    IF raised THEN [status |-> "error", sess |-> sess]
    ELSE LET historical_prices == LatestBars(bars, s, target_date, limit)
         IN IF Len(historical_prices) < MinBars THEN [status |-> "error", sess |-> sess]
            ELSE StoreComputed(table, sess, s, target_date,
                               Computed(historical_prices, "daily", target_date).at)

UpdateStock(table, bars, sess, s, target_date, limit, raised) ==
    IF raised THEN [status |-> "error", sess |-> sess]
    ELSE LET historical_prices == LatestBars(bars, s, target_date, limit)
         IN IF Len(historical_prices) < MinBars THEN [status |-> "skip", sess |-> sess]
            ELSE StoreComputed(table, sess, s, target_date,
                               Computed(historical_prices, "daily", target_date).at)

\* if indicators: ... if latest_indicators: the upsert
StoreLatest(table, sess, s, latest_date, computed) ==
    IF computed.all_ = {} \/ DOMAIN computed.at = {}
    THEN [status |-> "skip", sess |-> sess]
    ELSE Upsert(table, sess, s, latest_date, computed.at)

\* One pass of the loop body of calculate_all_technical_indicators.
RecomputeStock(table, bars, sess, s, raised) ==
    IF raised THEN [status |-> "error", sess |-> sess]
    ELSE LET recent_prices == LatestBars(bars, s, TargetDate, AllIndicatorsLimit)
         IN IF Len(recent_prices) < MinBars THEN [status |-> "skip", sess |-> sess]
            ELSE StoreLatest(table, sess, s, recent_prices[1].trade_date,
                             Computed(recent_prices, "all", recent_prices[1].trade_date))

\* Seeded faults: the except clause leaves the loop, or runs the same
\* instrument again.
NextAfterError_Break(idx, n) == n + 1
NextAfterError_Again(idx, n) == idx

\* the loop index after the except clause of the loop body: continue
NextAfterError(idx, n) == idx + 1

\* db.commit(): UPDATE the modified rows, INSERT the added ones
RECURSIVE AssignIds(_, _)
AssignIds(rows, base) ==
    IF rows = <<>> THEN <<>>
    ELSE AssignIds(SubSeq(rows, 1, Len(rows) - 1), base)
         \o <<[rows[Len(rows)] EXCEPT !["id"] = IntVal(base + Len(rows)),
                                      !["created_at"] = IntVal(1)]>>

CommitSession(table, sess) ==
    [i \in 1..Len(table) |->
        IF \E e \in sess.dirty : e.idx = i
        THEN StoreRow(SessionRow(table, sess, i)) ELSE table[i]]
    \o [i \in 1..Len(sess.pending) |-> StoreRow(AssignIds(sess.pending, Len(table))[i])]

NewSession == [dirty |-> {}, pending |-> <<>>]

\* Seeded fault: the countdown doubles with every retry.
Countdown_Doubling(retries_) == CountdownBase * 2 ^ retries_

\* countdown=60 * (self.request.retries + 1)
Countdown(retries_) == CountdownBase * (retries_ + 1)

\* existing = db.query(DailyPrice).filter(stock_id, trade_date).first()
\* if not existing: db.add(DailyPrice(...))      -- for each fetched stock
\* The save loop over one symbol's fetched history, then db.commit(): each
\* date is looked up among the committed rows (the session does not flush
\* before a query, so the bars added earlier in the loop are not seen) and
\* added when no row is found; stored rows are left as they are.
SaveHistory(bars, s, history) ==
    LET New(d) == ~HasBar(bars, s, d)
    IN bars \o [i \in 1..Len(SelectSeq(history, New)) |->
                  BarOf(s, SelectSeq(history, New)[i])]

RECURSIVE SaveBars(_, _)
SaveBars(bars, fetched) ==
    IF fetched = {} THEN bars
    ELSE LET s == CHOOSE x \in fetched : \A y \in fetched : x <= y
         IN SaveBars(SaveHistory(bars, s, <<TargetDate>>), fetched \ {s})

\* ---------------------------------------------------------------- state
VARIABLES
    variant,      \* which scheduled_tasks module is deployed
    profile,      \* each stock as it was before the first task ran
    saved,        \* rows added to daily_prices since then, in insertion order
    indicators,   \* table technical_indicators
    logs,         \* table data_update_logs
    queue,        \* calculate_daily_technical_indicators runs queued by .delay()
    task,         \* the task the worker is running
    pc,           \* its position
    retries,      \* self.request.retries of daily_data_update
    log_entry,    \* daily_data_update: the local log_entry and its session
    results,      \* daily_data_update: what each stage returned
    stage,        \* the indicator task: caller, stock list, loop index, count
    sess,         \* the indicator task's session: modified and added rows
    ind_result,   \* what the indicator task returned
    outcome,      \* how the last top-level task ended
    faults,       \* storage and broker failures so far
    runs,         \* top-level tasks started so far
    delays,       \* countdowns of the retries scheduled by the running batch
    failed,       \* stocks whose loop body raised in the last indicator run
    visits,       \* times the loop body ran for each stock in that run
    batch_exc,    \* the running batch attempt left its try block by an exception
    idem,         \* table after the first of a streak of undisturbed daily runs
    call,         \* the last call of a library function: its arguments and result
    fetch,        \* get_multiple_stocks: where each symbol's coroutine is
    semaphore,    \* get_multiple_stocks: the value of the semaphore
    updaters,     \* two indicator tasks on two workers: each one's position and session
    scraper       \* one scraper instance, its coroutines and the clock

task_vars == <<variant, profile, saved, indicators, logs, queue, task, pc, retries,
               log_entry, results, stage, sess, ind_result, outcome, faults, runs,
               delays, failed, visits, batch_exc, idem>>
vars == <<task_vars, call, fetch, semaphore, updaters, scraper>>

NoStage == [caller |-> "none", kind |-> "none", list |-> <<>>, idx |-> 0,
            processed_count |-> 0, faulted |-> FALSE, done |-> FALSE]
NoResult == [set |-> FALSE, success |-> FALSE, processed_count |-> 0]
NoLogEntry == [local |-> FALSE, idx |-> 0, broken |-> FALSE]
NoResults == [yahoo_finance |-> "unset", twse_data |-> "unset",
              technical_indicators |-> "unset"]
NoOutcome == [task |-> "none", kind |-> "none", success |-> FALSE]
NoCall == [fn |-> "none"]
Symbols == 1..NumSymbols

\* the two runs of calculate_daily_technical_indicators that can overlap: the
\* one of the beat schedule and the one manual_update_stock queues
Updaters == {"scheduled", "queued"}

\* before YahooFinanceScraper() or TWSEScraper() is constructed
NoScraper == [kind |-> "none"]

Init ==
    /\ variant \in {"backend", "collector"}
    /\ \E shift \in 0..(Len(Profiles) - 1) :
          profile = [s \in Stocks |-> ProfileOf(shift, s)]
    /\ saved = <<>>
    /\ indicators = InitIndicators(profile, NumStocks)
    /\ logs = <<>>
    /\ queue = 0
    /\ task = "none"
    /\ pc = "idle"
    /\ retries = 0
    /\ log_entry = NoLogEntry
    /\ results = NoResults
    /\ stage = NoStage
    /\ sess = NewSession
    /\ ind_result = NoResult
    /\ outcome = NoOutcome
    /\ faults = 0
    /\ runs = 0
    /\ delays = <<>>
    /\ failed = {}
    /\ visits = [s \in Stocks |-> 0]
    /\ batch_exc = FALSE
    /\ idem = [streak |-> 0, snap |-> <<>>]
    /\ call = NoCall
    /\ fetch = [y \in Symbols |-> "absent"]
    /\ semaphore = MAX_CONCURRENT_REQUESTS
    /\ updaters = [u \in Updaters |->
                      [pc |-> "idle", list |-> <<>>, idx |-> 0, sess |-> NewSession,
                       overlapped |-> FALSE]]
    /\ scraper = NoScraper

\* Stock.is_active
active == [s \in Stocks |-> profile[s].active]

\* table daily_prices: rows are only ever inserted, so it is the rows of the
\* start followed by the rows saved since
prices == InitPrices(profile, NumStocks) \o saved

\* the rows a new table content adds to the rows of the start
Added(table) == SubSeq(table, Len(InitPrices(profile, NumStocks)) + 1, Len(table))

CanFail == faults < MaxFaults
HistoryLimit == IF variant = "backend" THEN BackendHistoryLimit ELSE CollectorHistoryLimit

\* ------------------------------------------------- the indicator task
\* .limit(10).all() of the backend's query; the collector's has no limit
LimitStocks(all_, v) ==
    IF v = "backend" THEN SubSeq(all_, 1, Min2(BackendStockLimit, Len(all_))) ELSE all_

\* stocks_with_data: active stocks joined with a bar on the target date
StocksWithData ==
    LimitStocks(SetToSeq({s \in Stocks : active[s] /\ HasBar(prices, s, TargetDate)}),
                variant)

ActiveStocks == SetToSeq({s \in Stocks : active[s]})

BeginStage(caller, kind) ==
    /\ stage' = [caller |-> caller, kind |-> kind, list |-> <<>>, idx |-> 0,
                 processed_count |-> 0, faulted |-> FALSE, done |-> FALSE]
    /\ sess' = NewSession
    /\ ind_result' = NoResult
    /\ failed' = {}
    /\ visits' = [s \in Stocks |-> 0]
    /\ pc' = "ind_start"

\* the task returns: to daily_data_update, or to the worker
StageReturn(result, table) ==
    /\ ind_result' = result
    /\ IF stage.caller = "batch"
       THEN /\ pc' = "final"
            /\ results' = [results EXCEPT !.technical_indicators =
                              IF result.success THEN "ok" ELSE "fail"]
            /\ UNCHANGED <<task, outcome>>
       ELSE /\ pc' = "idle"
            /\ task' = "none"
            /\ outcome' = [task |-> stage.kind, kind |-> "returned",
                           success |-> result.success]
            /\ UNCHANGED results
    /\ idem' = IF stage.kind = "daily" /\ result.success /\ ~stage.faulted
               THEN IF idem.streak = 0 THEN [streak |-> 1, snap |-> table]
                    ELSE [idem EXCEPT !.streak = Min2(@ + 1, MaxRuns + 1)]
               ELSE [streak |-> 0, snap |-> <<>>]

StartScheduledIndicators ==
    /\ task = "none" /\ runs < MaxRuns
    /\ task' = "daily"
    /\ runs' = runs + 1
    /\ BeginStage("worker", "daily")
    /\ UNCHANGED <<variant, profile, saved, indicators, logs, queue, retries, log_entry,
                   results, outcome, faults, delays, batch_exc, idem>>
    /\ UNCHANGED <<call, fetch, semaphore, updaters, scraper>>

StartQueuedIndicators ==
    /\ task = "none" /\ runs < MaxRuns /\ queue > 0
    /\ task' = "daily"
    /\ runs' = runs + 1
    /\ queue' = queue - 1
    /\ BeginStage("worker", "daily")
    /\ UNCHANGED <<variant, profile, saved, indicators, logs, retries, log_entry,
                   results, outcome, faults, delays, batch_exc, idem>>
    /\ UNCHANGED <<call, fetch, semaphore, updaters, scraper>>

StartAllIndicators ==
    /\ variant = "collector"
    /\ task = "none" /\ runs < MaxRuns
    /\ task' = "all"
    /\ runs' = runs + 1
    /\ BeginStage("worker", "all")
    /\ UNCHANGED <<variant, profile, saved, indicators, logs, queue, retries, log_entry,
                   results, outcome, faults, delays, batch_exc, idem>>
    /\ UNCHANGED <<call, fetch, semaphore, updaters, scraper>>

\* get_db() and the query that lists the stocks; a failure lands in the
\* outer except clause
IndStart ==
    /\ pc = "ind_start"
    /\ \/ /\ stage' = [stage EXCEPT
                          !.list = IF stage.kind = "daily" THEN StocksWithData
                                   ELSE ActiveStocks,
                          !.idx = 1]
          /\ pc' = "ind_loop"
          /\ UNCHANGED <<ind_result, results, task, outcome, idem, faults>>
       \/ /\ CanFail
          /\ faults' = faults + 1
          /\ stage' = [stage EXCEPT !.done = TRUE]
          /\ StageReturn([set |-> TRUE, success |-> FALSE, processed_count |-> 0],
                         indicators)
    /\ UNCHANGED <<variant, profile, saved, indicators, logs, queue, retries, log_entry,
                   sess, runs, delays, failed, visits, batch_exc>>
    /\ UNCHANGED <<call, fetch, semaphore, updaters, scraper>>

\* where one pass r of the loop body for stock s leaves the task
LoopStep(s, r, raised) ==
    /\ sess' = r.sess
    /\ failed' = IF r.status = "error" THEN failed \cup {s} ELSE failed
    /\ visits' = [visits EXCEPT ![s] = Min2(@ + 1, 2)]
    /\ stage' = [stage EXCEPT
                    !.idx = IF r.status = "error"
                            THEN NextAfterError(stage.idx, Len(stage.list))
                            ELSE stage.idx + 1,
                    !.processed_count = IF r.status = "ok" THEN @ + 1 ELSE @,
                    !.faulted = @ \/ raised]

\* one pass of the loop body
IndStock ==
    /\ pc = "ind_loop"
    /\ stage.idx <= Len(stage.list)
    /\ \E raised \in BOOLEAN :
          /\ raised => CanFail
          /\ faults' = IF raised THEN faults + 1 ELSE faults
          /\ LoopStep(stage.list[stage.idx],
                      IF stage.kind = "daily"
                      THEN UpdateStock(indicators, prices, sess, stage.list[stage.idx],
                                       TargetDate, HistoryLimit, raised)
                      ELSE RecomputeStock(indicators, prices, sess,
                                          stage.list[stage.idx], raised),
                      raised)
    /\ UNCHANGED <<variant, profile, saved, indicators, logs, queue, task, pc, retries,
                   log_entry, results, ind_result, outcome, runs, delays, batch_exc,
                   idem>>
    /\ UNCHANGED <<call, fetch, semaphore, updaters, scraper>>

\* db.commit() after the loop, then the return
IndCommit ==
    /\ pc = "ind_loop"
    /\ stage.idx > Len(stage.list)
    /\ stage' = [stage EXCEPT !.done = TRUE]
    /\ \/ /\ indicators' = CommitSession(indicators, sess)
          /\ StageReturn([set |-> TRUE, success |-> TRUE,
                          processed_count |-> stage.processed_count],
                         CommitSession(indicators, sess))
          /\ UNCHANGED faults
       \/ /\ CanFail
          /\ faults' = faults + 1
          /\ StageReturn([set |-> TRUE, success |-> FALSE, processed_count |-> 0],
                         indicators)
          /\ UNCHANGED indicators
    /\ UNCHANGED <<variant, profile, saved, logs, queue, retries, log_entry, sess,
                   runs, delays, failed, visits, batch_exc>>
    /\ UNCHANGED <<call, fetch, semaphore, updaters, scraper>>

\* --------------------------------------------------- daily_data_update
\* DataUpdateLog(update_date=..., data_source='daily_update', status='processing')
NewLog == [status |-> "processing", records_processed |-> 0, records_inserted |-> 0,
           records_updated |-> 0, records_failed |-> 0, error_message |-> FALSE]

\* log_entry.records_processed of a completed attempt
RecordsProcessed(res) ==
    IF variant = "backend" THEN 1
    ELSE Cardinality({k \in DOMAIN res : res[k] = "ok"})

Finish(kind, success) ==
    /\ outcome' = [task |-> "batch", kind |-> kind, success |-> success]
    /\ task' = "none"
    /\ pc' = "idle"

StartBatch ==
    /\ task = "none" /\ runs < MaxRuns
    /\ task' = "batch"
    /\ pc' = "start"
    /\ runs' = runs + 1
    /\ retries' = 0
    /\ delays' = <<>>
    /\ log_entry' = NoLogEntry
    /\ results' = NoResults
    /\ batch_exc' = FALSE
    /\ stage' = [stage EXCEPT !.done = FALSE]
    /\ UNCHANGED <<variant, profile, saved, indicators, logs, queue, sess, ind_result,
                   outcome, faults, failed, visits, idem>>
    /\ UNCHANGED <<call, fetch, semaphore, updaters, scraper>>

\* update_state, get_db, then the log row and its commit
BatchBegin ==
    /\ task = "batch" /\ pc = "start"
    /\ \/ /\ logs' = Append(logs, NewLog)
          /\ log_entry' = [local |-> TRUE, idx |-> Len(logs) + 1, broken |-> FALSE]
          /\ pc' = "yahoo"
          /\ UNCHANGED <<faults, batch_exc>>
       \/ /\ CanFail                       \* update_state raises
          /\ faults' = faults + 1
          /\ batch_exc' = TRUE
          /\ pc' = "handler"
          /\ UNCHANGED <<logs, log_entry>>
       \/ /\ CanFail                       \* db.commit() raises
          /\ faults' = faults + 1
          /\ batch_exc' = TRUE
          /\ log_entry' = [local |-> TRUE, idx |-> 0, broken |-> TRUE]
          /\ pc' = "handler"
          /\ UNCHANGED logs
    /\ UNCHANGED <<variant, profile, saved, indicators, queue, task, retries, results,
                   stage, sess, ind_result, outcome, runs, delays, failed, visits, idem>>
    /\ UNCHANGED <<call, fetch, semaphore, updaters, scraper>>

\* stage 1.  backend: the coroutine only collects and returns a result.
\* collector: the task function runs, saving the fetched bars, and returns a
\* dict; await_task() of a dict raises TypeError.
BatchYahoo ==
    /\ task = "batch" /\ pc = "yahoo"
    /\ \/ /\ variant = "backend"
          /\ \E ok \in BOOLEAN :
                /\ ~ok => CanFail
                /\ faults' = IF ok THEN faults ELSE faults + 1
                /\ results' = [results EXCEPT !.yahoo_finance = IF ok THEN "ok" ELSE "fail"]
          /\ pc' = "twse"
          /\ UNCHANGED <<saved, batch_exc, idem>>
       \/ /\ variant = "backend"           \* update_state raises
          /\ CanFail
          /\ faults' = faults + 1
          /\ batch_exc' = TRUE
          /\ pc' = "handler"
          /\ UNCHANGED <<saved, results, idem>>
       \/ /\ variant = "collector"
          /\ \E fetched \in SUBSET {s \in Stocks : active[s]} :
                /\ saved' = Added(SaveBars(prices, fetched))
                /\ idem' = IF SaveBars(prices, fetched) = prices THEN idem
                           ELSE [streak |-> 0, snap |-> <<>>]
          /\ batch_exc' = TRUE
          /\ pc' = "handler"
          /\ UNCHANGED <<results, faults>>
    /\ UNCHANGED <<variant, profile, indicators, logs, queue, task, retries, log_entry,
                   stage, sess, ind_result, outcome, runs, delays, failed, visits>>
    /\ UNCHANGED <<call, fetch, semaphore, updaters, scraper>>

\* stage 2
BatchTwse ==
    /\ task = "batch" /\ pc = "twse"
    /\ results' = [results EXCEPT !.twse_data = "ok"]
    /\ pc' = "ind_call"
    /\ UNCHANGED <<variant, profile, saved, indicators, logs, queue, task, retries,
                   log_entry, stage, sess, ind_result, outcome, faults, runs, delays,
                   failed, visits, batch_exc, idem>>
    /\ UNCHANGED <<call, fetch, semaphore, updaters, scraper>>

\* stage 3: calculate_daily_technical_indicators(target_date), called inline
BatchIndicators ==
    /\ task = "batch" /\ pc = "ind_call"
    /\ BeginStage("batch", "daily")
    /\ UNCHANGED <<variant, profile, saved, indicators, logs, queue, task, retries,
                   log_entry, results, outcome, faults, runs, delays, batch_exc, idem>>
    /\ UNCHANGED <<call, fetch, semaphore, updaters, scraper>>

\* log_entry.status = 'completed', db.commit(), return
BatchFinal ==
    /\ task = "batch" /\ pc = "final"
    /\ \/ /\ logs' = [logs EXCEPT ![log_entry.idx] =
                        [@ EXCEPT !.status = "completed",
                                  !.records_processed = RecordsProcessed(results)]]
          /\ Finish("returned", TRUE)
          /\ UNCHANGED <<faults, batch_exc, log_entry>>
       \/ /\ CanFail                       \* db.commit() raises
          /\ faults' = faults + 1
          /\ batch_exc' = TRUE
          /\ log_entry' = [log_entry EXCEPT !.broken = TRUE]
          /\ pc' = "handler"
          /\ UNCHANGED <<logs, task, outcome>>
    /\ UNCHANGED <<variant, profile, saved, indicators, queue, retries, results, stage,
                   sess, ind_result, runs, delays, failed, visits, idem>>
    /\ UNCHANGED <<call, fetch, semaphore, updaters, scraper>>

\* the except clause: mark the log failed and commit, then retry or return.
\* The commit raises when storage fails again, and also when an earlier commit
\* of this session has failed, for the session was never rolled back.
BatchHandler ==
    /\ task = "batch" /\ pc = "handler"
    /\ \/ /\ log_entry.local
          /\ log_entry.broken \/ CanFail
          /\ faults' = IF log_entry.broken THEN faults ELSE faults + 1
          /\ Finish("raised", FALSE)
          /\ UNCHANGED <<logs, delays>>
       \/ /\ ~log_entry.broken
          /\ logs' = IF log_entry.local
                     THEN [logs EXCEPT ![log_entry.idx] =
                             [@ EXCEPT !.status = "failed", !.error_message = TRUE]]
                     ELSE logs
          /\ IF retries < max_retries
             THEN /\ delays' = Append(delays, Countdown(retries))
                  /\ pc' = "retry_wait"
                  /\ UNCHANGED <<task, outcome>>
             ELSE /\ Finish("returned", FALSE)
                  /\ UNCHANGED delays
          /\ UNCHANGED faults
    /\ UNCHANGED <<variant, profile, saved, indicators, queue, retries, log_entry,
                   results, stage, sess, ind_result, runs, failed, visits, batch_exc, idem>>
    /\ UNCHANGED <<call, fetch, semaphore, updaters, scraper>>

\* the broker runs the task again after the countdown
BatchRetry ==
    /\ task = "batch" /\ pc = "retry_wait"
    /\ retries' = retries + 1
    /\ pc' = "start"
    /\ log_entry' = NoLogEntry
    /\ results' = NoResults
    /\ batch_exc' = FALSE
    /\ stage' = [stage EXCEPT !.done = FALSE]
    /\ UNCHANGED <<variant, profile, saved, indicators, logs, queue, task, sess,
                   ind_result, outcome, faults, runs, delays, failed, visits, idem>>
    /\ UNCHANGED <<call, fetch, semaphore, updaters, scraper>>

\* ------------------------------------------------- manual_update_stock
\* the histories a fetch may return: dates in any order, repeated or not
Histories ==
    UNION {[1..n -> {TargetDate, TargetDate + 1}] : n \in 1..MaxHistory}

\* collector: fetch one symbol and, for each fetched bar that is not stored,
\* build DailyPrice(stock_id=..., symbol=symbol, **price_data).  price_data
\* has a key 'symbol' of its own, so the call raises TypeError and the task
\* returns success = False before db.commit() and before .delay(); when every
\* fetched bar is stored already nothing is built, and the indicator task is
\* queued.  backend: fetch only.
ManualUpdate ==
    /\ task = "none" /\ runs < MaxRuns
    /\ runs' = runs + 1
    /\ stage' = [stage EXCEPT !.done = FALSE]
    /\ \E s \in Stocks, history \in Histories \cup {<<>>}, raised \in BOOLEAN :
          LET saving == variant = "collector" /\ history # <<>> /\ ~raised
              new_bar == \E i \in 1..Len(history) : ~HasBar(prices, s, history[i])
          IN /\ raised => CanFail
             /\ faults' = IF raised THEN faults + 1 ELSE faults
             /\ outcome' = [task |-> "manual", kind |-> "returned",
                            success |-> ~raised /\ ~(saving /\ new_bar)]
             /\ queue' = IF saving /\ ~new_bar THEN queue + 1 ELSE queue
    /\ UNCHANGED <<variant, profile, saved, indicators, logs, task, pc, retries,
                   log_entry, results, sess, ind_result, delays, failed, visits,
                   batch_exc, idem>>
    /\ UNCHANGED <<call, fetch, semaphore, updaters, scraper>>

Next ==
    \/ StartScheduledIndicators
    \/ StartQueuedIndicators
    \/ StartAllIndicators
    \/ IndStart
    \/ IndStock
    \/ IndCommit
    \/ StartBatch
    \/ BatchBegin
    \/ BatchYahoo
    \/ BatchTwse
    \/ BatchIndicators
    \/ BatchFinal
    \/ BatchHandler
    \/ BatchRetry
    \/ ManualUpdate

Spec == Init /\ [][Next]_vars

\* ------------------------------------------------- calls of the library
\* The functions are applied to arguments drawn from bounded sets, in the
\* state the program starts in; a behaviour holds one call.
CallInit == Init /\ variant = "backend" /\ profile = [s \in Stocks |-> ProfileOf(0, s)]

\* the stock query of calculate_daily_technical_indicators over a universe of
\* n active stocks that all have a bar on the target date
CallStocksWithData ==
    /\ call = NoCall
    /\ \E n \in 0..MaxUniverse, v \in {"backend", "collector"} :
          call' = [fn |-> "stocks_with_data", universe |-> n, variant |-> v,
                   list |-> LimitStocks(SetToSeq(1..n), v)]
    /\ UNCHANGED <<task_vars, fetch, semaphore, updaters, scraper>>

\* price series the library is called with: n bars of one of a few shapes
Shapes == {"flat", "up", "down", "zig"}
CloseAt(shape, i) ==
    50 * Unit + (CASE shape = "flat" -> 0
                   [] shape = "up" -> 137 * i
                   [] shape = "down" -> 0 - 137 * i
                   [] shape = "zig" -> IF i % 2 = 0 THEN 211 ELSE 0 - 97)
Closes(shape, n) == [i \in 1..n |-> CloseAt(shape, i)]

\* the windowed indicators, the MACD and the stochastic with the other
\* periods at their defaults; each gives one or more lists
WindowedFns ==
    {"calculate_ma", "calculate_ema", "calculate_rsi", "calculate_macd",
     "calculate_bollinger_bands", "calculate_stochastic", "calculate_volume_ma",
     "calculate_support_resistance", "calculate_price_momentum"}

Windowed(fn, shape, n, period) ==
    LET c == Closes(shape, n)
        h == [i \in 1..n |-> c[i] + 50]
        l == [i \in 1..n |-> c[i] - 50]
        vol == [i \in 1..n |-> 1000 + (c[i] % 7)]
    IN CASE fn = "calculate_ma" -> <<calculate_ma(c, period)>>
         [] fn = "calculate_ema" -> <<calculate_ema(c, period)>>
         [] fn = "calculate_rsi" -> <<calculate_rsi(c, period)>>
         [] fn = "calculate_macd" ->
               <<calculate_macd(c, 12, period, 9).macd,
                 calculate_macd(c, 12, period, 9).signal,
                 calculate_macd(c, 12, period, 9).histogram>>
         [] fn = "calculate_bollinger_bands" ->
               <<calculate_bollinger_bands(c, period, 2).upper,
                 calculate_bollinger_bands(c, period, 2).middle,
                 calculate_bollinger_bands(c, period, 2).lower>>
         [] fn = "calculate_stochastic" ->
               <<calculate_stochastic(h, l, c, period, 3).k,
                 calculate_stochastic(h, l, c, period, 3).d>>
         [] fn = "calculate_volume_ma" -> <<calculate_volume_ma(vol, period)>>
         [] fn = "calculate_support_resistance" ->
               <<calculate_support_resistance(h, l, c, period).support,
                 calculate_support_resistance(h, l, c, period).resistance>>
         [] fn = "calculate_price_momentum" -> <<calculate_price_momentum(c, period)>>

\* a windowed indicator called on a series shorter than its period
CallShortSeries ==
    /\ call = NoCall
    /\ \E fn \in WindowedFns, shape \in Shapes, period \in 1..MaxPeriod :
          \E n \in 0..(period - 1) :
             call' = [fn |-> fn, shape |-> shape, n |-> n, period |-> period,
                      lists |-> Windowed(fn, shape, n, period)]
    /\ UNCHANGED <<task_vars, fetch, semaphore, updaters, scraper>>

\* calculate_ma called on a series of any length
CallMovingAverage ==
    /\ call = NoCall
    /\ \E shape \in Shapes, period \in 1..MaxPeriod, n \in 0..MaxLen :
          call' = [fn |-> "calculate_ma", shape |-> shape, n |-> n, period |-> period,
                   lists |-> <<calculate_ma(Closes(shape, n), period)>>]
    /\ UNCHANGED <<task_vars, fetch, semaphore, updaters, scraper>>

\* calculate_rsi called with its default period on a series of any length
CallRelativeStrength ==
    /\ call = NoCall
    /\ \E shape \in Shapes, n \in 0..MaxLen :
          call' = [fn |-> "calculate_rsi", shape |-> shape, n |-> n, period |-> 14,
                   lists |-> <<calculate_rsi(Closes(shape, n), 14)>>]
    /\ UNCHANGED <<task_vars, fetch, semaphore, updaters, scraper>>

\* stock_data of n daily bars, oldest first, dated 1..n
SampleStockData(shape, n) ==
    [dates |-> [i \in 1..n |-> i],
     open |-> [i \in 1..n |-> CloseAt(shape, i) - 10],
     high |-> [i \in 1..n |-> CloseAt(shape, i) + 50],
     low |-> [i \in 1..n |-> CloseAt(shape, i) - 50],
     close |-> Closes(shape, n),
     volume |-> [i \in 1..n |-> 1000 + (CloseAt(shape, i) % 7)]]

\* calculate_indicator_for_date called for the date of any bar of the buffer
CallIndicatorForDate ==
    /\ call = NoCall
    /\ \E shape \in Shapes, n \in 1..MaxLen :
          \E target_date \in 1..n :
             call' = [fn |-> "calculate_indicator_for_date", shape |-> shape, n |-> n,
                      target_date |-> target_date,
                      row |-> calculate_indicator_for_date(SampleStockData(shape, n),
                                                           target_date)]
    /\ UNCHANGED <<task_vars, fetch, semaphore, updaters, scraper>>

\* Seeded fault: a tie counts as a buy.
OverallSignal_TieBuys(buy_count, sell_count) ==
    [overall_signal |-> IF buy_count >= sell_count THEN "buy" ELSE "sell",
     signal_strength |-> Abs(buy_count - sell_count)]

\* overall_signal and signal_strength from the sizes of the two buckets
OverallSignal(buy_count, sell_count) ==
    [overall_signal |-> IF buy_count > sell_count THEN "buy"
                        ELSE IF sell_count > buy_count THEN "sell"
                        ELSE "neutral",
     signal_strength |-> Abs(buy_count - sell_count)]

\* get_latest_signals: indicators_ maps some keys to lists, the last element
\* of each list is read.  A comparison with NaN is false; a comparison of
\* None with a float raises, and the except clause returns the empty result.
\* The signal texts are given in English.
get_latest_signals(indicators_) ==
    LET Has(key) == key \in DOMAIN indicators_ /\ indicators_[key] # <<>>
        Last(key) == indicators_[key][Len(indicators_[key])]
        Present(key) == Has(key) /\ Last(key) # None
        Lt(a, b) == IsNum(a) /\ IsNum(b) /\ a.v < b.v
        Le(a, b) == IsNum(a) /\ IsNum(b) /\ a.v <= b.v
        with_rsi == Present("rsi_14")
        with_macd == Present("macd") /\ Present("macd_signal")
        with_ma == Has("close") /\ Present("ma_20") /\ Present("ma_60")
        with_kd == Present("k_value") /\ Present("d_value")
        with_bb == Has("close") /\ Present("bb_upper") /\ Present("bb_lower")
        raised == (with_ma \/ with_bb) /\ Last("close") = None
        rsi == IF ~with_rsi THEN "none"
               ELSE IF Lt(Last("rsi_14"), Num(30 * Unit)) THEN "buy"
               ELSE IF Lt(Num(70 * Unit), Last("rsi_14")) THEN "sell"
               ELSE "neutral"
        macd == IF ~with_macd THEN "none"
                ELSE IF Lt(Last("macd_signal"), Last("macd")) THEN "buy"
                ELSE "sell"
        ma == IF ~with_ma THEN "none"
              ELSE IF Lt(Last("ma_20"), Last("close")) /\ Lt(Last("ma_60"), Last("ma_20"))
              THEN "buy"
              ELSE IF Lt(Last("close"), Last("ma_20")) /\ Lt(Last("ma_20"), Last("ma_60"))
              THEN "sell"
              ELSE "neutral"
        kd == IF ~with_kd THEN "none"
              ELSE IF Lt(Last("k_value"), Num(20 * Unit))
                      /\ Lt(Last("d_value"), Num(20 * Unit))
              THEN "buy"
              ELSE IF Lt(Num(80 * Unit), Last("k_value"))
                      /\ Lt(Num(80 * Unit), Last("d_value"))
              THEN "sell"
              ELSE "neutral"
        bb == IF ~with_bb THEN "none"
              ELSE IF Le(Last("close"), Last("bb_lower")) THEN "buy"
              ELSE IF Le(Last("bb_upper"), Last("close")) THEN "sell"
              ELSE "neutral"
        Bucket(b) ==
            (IF rsi = b THEN <<"RSI " \o b>> ELSE <<>>)
            \o (IF macd = b THEN <<"MACD " \o b>> ELSE <<>>)
            \o (IF ma = b THEN <<"MA " \o b>> ELSE <<>>)
            \o (IF kd = b THEN <<"KD " \o b>> ELSE <<>>)
            \o (IF bb = b THEN <<"Bollinger " \o b>> ELSE <<>>)
        Result(buy, sell, neutral) ==
            [buy_signals |-> buy, sell_signals |-> sell, neutral_signals |-> neutral,
             overall_signal |-> OverallSignal(Len(buy), Len(sell)).overall_signal,
             signal_strength |-> OverallSignal(Len(buy), Len(sell)).signal_strength]
    IN IF raised
       THEN [buy_signals |-> <<>>, sell_signals |-> <<>>, neutral_signals |-> <<>>,
             overall_signal |-> "neutral", signal_strength |-> 0]
       ELSE Result(Bucket("buy"), Bucket("sell"), Bucket("neutral"))

\* get_latest_signals called on lists whose last elements are absent, None,
\* NaN or numbers on every side of the thresholds
CallLatestSignals ==
    /\ call = NoCall
    /\ \E rsi \in {EmptyDict, [rsi_14 |-> <<>>]}
                    \cup {[rsi_14 |-> <<None, x>>] :
                             x \in {None, NaN, Num(25 * Unit), Num(50 * Unit), Num(75 * Unit)}},
          macd \in {EmptyDict, [macd |-> <<None, Num(10)>>]}
                    \cup {[macd |-> <<None, x>>, macd_signal |-> <<None, Num(0)>>] :
                             x \in {None, NaN, Num(10), Num(0), Num(0 - 10)}},
          close \in {EmptyDict, [close |-> <<Num(90 * Unit), None>>],
                     [close |-> <<Num(90 * Unit), Num(100 * Unit)>>]},
          ma \in {EmptyDict}
                  \cup {[ma_20 |-> <<None, x[1]>>, ma_60 |-> <<None, x[2]>>] :
                           x \in {<<None, Num(80 * Unit)>>,
                                  <<Num(90 * Unit), Num(80 * Unit)>>,
                                  <<Num(110 * Unit), Num(120 * Unit)>>,
                                  <<Num(90 * Unit), Num(120 * Unit)>>}},
          kd \in {EmptyDict}
                  \cup {[k_value |-> <<None, x[1]>>, d_value |-> <<None, x[2]>>] :
                           x \in {<<None, Num(10 * Unit)>>,
                                  <<Num(10 * Unit), Num(10 * Unit)>>,
                                  <<Num(90 * Unit), Num(90 * Unit)>>,
                                  <<Num(10 * Unit), Num(90 * Unit)>>}},
          bb \in {EmptyDict}
                  \cup {[bb_upper |-> <<None, x[1]>>, bb_lower |-> <<None, x[2]>>] :
                           x \in {<<None, Num(80 * Unit)>>,
                                  <<Num(120 * Unit), Num(80 * Unit)>>,
                                  <<Num(100 * Unit), Num(80 * Unit)>>,
                                  <<Num(120 * Unit), Num(100 * Unit)>>}} :
          call' = [fn |-> "get_latest_signals",
                   indicators |-> rsi @@ macd @@ close @@ ma @@ kd @@ bb,
                   signals |-> get_latest_signals(rsi @@ macd @@ close @@ ma @@ kd @@ bb)]
    /\ UNCHANGED <<task_vars, fetch, semaphore, updaters, scraper>>

\* get_technical_analysis from the price query on: the bars of the period,
\* oldest first, give stock_data, all_indicators and the signals read from
\* all_indicators.  The period holds a few bars or a little over 60.
CallTechnicalAnalysis ==
    /\ call = NoCall
    /\ \E shape \in Shapes, n \in (1..MaxLen) \cup (60..(60 + MaxPeriod)) :
          LET Analysis(all_indicators) ==
                  [fn |-> "get_technical_analysis", shape |-> shape, n |-> n,
                   latest_price |-> CloseAt(shape, n),
                   ma_20 |-> all_indicators.ma_20[n],
                   ma_60 |-> all_indicators.ma_60[n],
                   signals |-> get_latest_signals(all_indicators)]
          IN call' = Analysis(calculate_all_indicators(SampleStockData(shape, n)))
    /\ UNCHANGED <<task_vars, fetch, semaphore, updaters, scraper>>

\* the series and the indicators of the newest date, as the daily task takes
\* them from MinBars bar records (closes rising from about 1.00) of which
\* one may lack a field or hold a price or volume that is zero or negative
CallPrepareStockData ==
    /\ call = NoCall
    /\ \E at \in {1, MinBars - 1, MinBars},
          defect \in {"none", "missing", "zero", "negative"},
          field \in {"open_price", "high_price", "low_price", "close_price", "volume"} :
          LET Bar(i) == [trade_date |-> i, open_price |-> Unit + 10 * i - 10,
                         high_price |-> Unit + 10 * i + 50,
                         low_price |-> Unit + 10 * i - 50,
                         close_price |-> Unit + 10 * i,
                         volume |-> 1000 + 7 * i]
              Spoilt(bar) ==
                  CASE defect = "none" -> bar
                    [] defect = "missing" -> [f \in DOMAIN bar \ {field} |-> bar[f]]
                    [] defect = "zero" -> [bar EXCEPT ![field] = 0]
                    [] defect = "negative" -> [bar EXCEPT ![field] = 0 - bar[field]]
              Outcome(stock_data) ==
                  [fn |-> "prepare_stock_data_for_indicators",
                   at |-> at, defect |-> defect, field |-> field,
                   series |-> DOMAIN stock_data,
                   row |-> calculate_indicator_for_date(stock_data, MinBars)]
          IN call' = Outcome(prepare_stock_data_for_indicators(
                                 [d \in 1..MinBars |->
                                     IF d = at THEN Spoilt(Bar(d)) ELSE Bar(d)]))
    /\ UNCHANGED <<task_vars, fetch, semaphore, updaters, scraper>>

\* The loop body of calculate_daily_technical_indicators up to the computed
\* indicators, for a stock with n stored bars ending on the target date: the
\* query keeps the newest 60 (backend) or 240 (collector) of them, and fewer
\* than MinBars bars are skipped.  Of the row the moving averages are kept.
\* The collector is given at most 61 bars, the backend up to 120.
CallDailyIndicators ==
    /\ call = NoCall
    /\ \E v \in {"backend", "collector"},
          n \in {5, MinBars - 1, MinBars, MaxBars, 60, 61, 120} :
          LET Averages(indicators_) ==
                  [key \in {"ma_5", "ma_10", "ma_20", "ma_60", "ma_120", "ma_240"}
                            \cap DOMAIN indicators_ |-> indicators_[key]]
              Body(historical) ==
                  [fn |-> "calculate_daily_technical_indicators", variant |-> v, n |-> n,
                   row |-> IF Len(historical) < MinBars THEN EmptyDict
                           ELSE Averages(Computed(historical, "daily", TargetDate).at)]
          IN /\ v = "collector" => n <= 61
             /\ call' = Body(History(1, TargetDate,
                                     Min2(n, IF v = "backend" THEN BackendHistoryLimit
                                             ELSE CollectorHistoryLimit)))
    /\ UNCHANGED <<task_vars, fetch, semaphore, updaters, scraper>>

\* calculate_macd called with its default periods on a series of any
\* length up to a little over slow + signal
CallConvergence ==
    /\ call = NoCall
    /\ \E shape \in Shapes, n \in 1..(26 + 9 + MaxPeriod) :
          call' = [fn |-> "calculate_macd", shape |-> shape, n |-> n, period |-> 26,
                   lists |-> <<calculate_macd(Closes(shape, n), 12, 26, 9).macd,
                               calculate_macd(Closes(shape, n), 12, 26, 9).signal,
                               calculate_macd(Closes(shape, n), 12, 26, 9).histogram>>]
    /\ UNCHANGED <<task_vars, fetch, semaphore, updaters, scraper>>

\* calculate_support_resistance called on a series at least as long as the
\* period; the highs lie above the lows, or below them when crossed
CallSupportResistance ==
    /\ call = NoCall
    /\ \E shape \in Shapes, period \in 1..MaxPeriod, crossed \in BOOLEAN :
          \E n \in period..(2 * MaxPeriod) :
             LET Levels(h, l) ==
                     [fn |-> "calculate_support_resistance", shape |-> shape, n |-> n,
                      period |-> period, high |-> h, low |-> l,
                      lists |-> <<calculate_support_resistance(
                                      h, l, Closes(shape, n), period).support,
                                  calculate_support_resistance(
                                      h, l, Closes(shape, n), period).resistance>>]
             IN call' = Levels([i \in 1..n |-> CloseAt(shape, i)
                                                + (IF crossed THEN 0 - 50 ELSE 50 + (i % 3))],
                               [i \in 1..n |-> CloseAt(shape, i)
                                                + (IF crossed THEN 50 ELSE 0 - 50)])
    /\ UNCHANGED <<task_vars, fetch, semaphore, updaters, scraper>>

CallNext ==
    \/ CallSupportResistance
    \/ CallConvergence
    \/ CallDailyIndicators
    \/ CallPrepareStockData
    \/ CallTechnicalAnalysis
    \/ CallStocksWithData
    \/ CallShortSeries
    \/ CallMovingAverage
    \/ CallRelativeStrength
    \/ CallIndicatorForDate
    \/ CallLatestSignals

CallSpec == CallInit /\ [][CallNext]_vars

\* ------------------------------------------------- get_multiple_stocks
\* Seeded fault: the semaphore never reads as locked.
Locked_Never(value) == FALSE

\* asyncio.Semaphore.locked()
Locked(value) == value = 0

\* get_multiple_stocks(symbols): a new semaphore, and one coroutine per symbol
FetchStart ==
    /\ \A y \in Symbols : fetch[y] = "absent"
    /\ \E n \in 0..NumSymbols :
          fetch' = [y \in Symbols |-> IF y <= n THEN "created" ELSE "absent"]
    /\ semaphore' = MAX_CONCURRENT_REQUESTS
    /\ UNCHANGED <<task_vars, call, updaters, scraper>>

\* async with semaphore: the coroutine of a symbol starts and takes the
\* semaphore, or waits for it
FetchEnter ==
    /\ \E y \in Symbols :
          /\ fetch[y] = "created"
          /\ IF Locked(semaphore)
             THEN /\ fetch' = [fetch EXCEPT ![y] = "waiting"]
                  /\ UNCHANGED semaphore
             ELSE /\ fetch' = [fetch EXCEPT ![y] = "fetching"]
                  /\ semaphore' = semaphore - 1
    /\ UNCHANGED <<task_vars, call, updaters, scraper>>

\* a waiting coroutine is woken after a release and takes the semaphore
FetchWake ==
    /\ \E y \in Symbols :
          /\ fetch[y] = "waiting"
          /\ ~Locked(semaphore)
          /\ fetch' = [fetch EXCEPT ![y] = "fetching"]
          /\ semaphore' = semaphore - 1
    /\ UNCHANGED <<task_vars, call, updaters, scraper>>

\* the two requests of a symbol return or raise; results[symbol] is set when
\* one of them returned data; leaving the with block releases the semaphore
FetchFinish ==
    /\ \E y \in Symbols, stored \in BOOLEAN :
          /\ fetch[y] = "fetching"
          /\ fetch' = [fetch EXCEPT ![y] = IF stored THEN "stored" ELSE "empty"]
    /\ semaphore' = semaphore + 1
    /\ UNCHANGED <<task_vars, call, updaters, scraper>>

FetchNext ==
    \/ FetchStart
    \/ FetchEnter
    \/ FetchWake
    \/ FetchFinish

FetchSpec == CallInit /\ [][FetchNext]_vars

\* ------------------------------------- two indicator tasks at the same time
\* The beat schedule's calculate_daily_technical_indicators and the one
\* manual_update_stock queues run on two workers, each with the session its
\* own get_db() returns.  A session reads the committed table and writes at
\* its db.commit().

\* db = get_db() and the query of stocks_with_data
RaceStart ==
    /\ \E u \in Updaters :
          /\ updaters[u].pc = "idle"
          /\ updaters' = [updaters EXCEPT ![u] =
                [pc |-> "loop", list |-> StocksWithData, idx |-> 1, sess |-> NewSession,
                 overlapped |-> FALSE]]
    /\ UNCHANGED <<task_vars, call, fetch, semaphore, scraper>>

\* one pass of the loop body: the history query, the computation, the
\* existence check and the update or insert
RaceStock ==
    /\ \E u \in Updaters :
          /\ updaters[u].pc = "loop"
          /\ updaters[u].idx <= Len(updaters[u].list)
          /\ updaters' = [updaters EXCEPT
                ![u].sess = UpdateStock(indicators, prices, updaters[u].sess,
                                        updaters[u].list[updaters[u].idx],
                                        TargetDate, HistoryLimit, FALSE).sess,
                ![u].idx = @ + 1]
    /\ UNCHANGED <<task_vars, call, fetch, semaphore, scraper>>

\* db.commit() after the loop; overlapped records that the other task had
\* by then run its loop body and not yet committed
RaceCommit ==
    /\ \E u \in Updaters :
          /\ updaters[u].pc = "loop"
          /\ updaters[u].idx > Len(updaters[u].list)
          /\ indicators' = CommitSession(indicators, updaters[u].sess)
          /\ updaters' = [updaters EXCEPT
                ![u].pc = "done",
                ![u].overlapped = \E o \in Updaters \ {u} :
                                     updaters[o].pc = "loop" /\ updaters[o].idx > 1]
    /\ UNCHANGED <<variant, profile, saved, logs, queue, task, pc, retries, log_entry,
                   results, stage, sess, ind_result, outcome, faults, runs, delays,
                   failed, visits, batch_exc, idem>>
    /\ UNCHANGED <<call, fetch, semaphore, scraper>>

RaceNext ==
    \/ RaceStart
    \/ RaceStock
    \/ RaceCommit

RaceSpec == Init /\ [][RaceNext]_vars

\* ------------------------------------------------------- the scrapers
\* YahooFinanceScraper and TWSEScraper: _rate_limit_wait and _make_request.
\* Times are whole ticks, Ticks to the second.
Ticks == 5
MAX_RETRIES == 3
REQUEST_DELAY_SECONDS == 1
YAHOO_RATE_LIMIT == 100
TWSE_RATE_LIMIT == 60
NoTime == 0 - 1

\* the coroutines that may share one scraper: info_task and history_task of
\* one fetch_single_stock, and a request for another symbol
Coroutines == <<"info", "history", "other">>

\* min_interval = 60 / self.rate_limit
MinInterval(kind) ==
    (60 * Ticks) \div (IF kind = "yahoo" THEN YAHOO_RATE_LIMIT ELSE TWSE_RATE_LIMIT)

\* Seeded fault: the wait does not grow.
RetryWait_Flat(kind, retries_) == Ticks * (IF kind = "yahoo" THEN 1 ELSE 2)

\* wait_time = 2 ** retries, twice that in the TWSE scraper
RetryWait(kind, retries_) == (2 ^ retries_) * Ticks * (IF kind = "yahoo" THEN 1 ELSE 2)

\* settings.REQUEST_DELAY_SECONDS * retries, twice that in the TWSE scraper
ErrorDelay(kind, retries_) ==
    REQUEST_DELAY_SECONDS * Ticks * retries_ * (IF kind = "yahoo" THEN 1 ELSE 2)

IdleCoroutine ==
    [pc |-> "idle", current_time |-> NoTime, wake |-> NoTime, retries |-> 0,
     attempts |-> 0, streak |-> 0, wait |-> NoTime, waits |-> 0, result |-> "unset"]

\* __init__: request_count = 0, last_request_time = None
ScraperInit ==
    /\ scraper.kind = "none"
    /\ \E kind \in {"yahoo", "twse"}, n \in 1..Len(Coroutines) :
          scraper' = [kind |-> kind, now |-> 0, last_request_time |-> NoTime,
                      request_count |-> 0, started |-> 0, failures |-> 0,
                      last_send |-> NoTime,
                      closest |-> MinInterval(kind),
                      co |-> [c \in {Coroutines[i] : i \in 1..n} |-> IdleCoroutine]]
    /\ UNCHANGED <<task_vars, call, fetch, semaphore, updaters>>

\* self.session.get(url) is started by coroutine c: the send is timed against
\* the one before it; closest is the smallest distance of two consecutive
\* sends so far, kept up to min_interval
Send(sc, c) ==
    [sc EXCEPT !.last_send = sc.now,
               !.closest = IF sc.last_send = NoTime THEN @
                           ELSE Min2(@, sc.now - sc.last_send),
               !.co[c].pc = "sending",
               !.co[c].attempts = @ + 1]

\* the end of _rate_limit_wait: last_request_time = current_time, the time
\* read before the sleep, and request_count += 1
Passed(sc, c) ==
    [sc EXCEPT !.last_request_time = sc.co[c].current_time,
               !.request_count = @ + 1]

\* a coroutine calls _make_request, once: _rate_limit_wait runs to its sleep,
\* or to its end and the first send when it does not sleep
RequestCall ==
    /\ scraper.kind # "none"
    /\ \E c \in DOMAIN scraper.co :
          /\ scraper.co[c].pc = "idle"
          /\ LET called == [scraper EXCEPT
                               !.started = @ + 1,
                               !.co[c] = [IdleCoroutine EXCEPT
                                             !.current_time = scraper.now]]
                 time_diff == scraper.now - scraper.last_request_time
             IN scraper' =
                   IF /\ scraper.last_request_time # NoTime
                      /\ time_diff < MinInterval(scraper.kind)
                   THEN [called EXCEPT
                            !.co[c].pc = "limit_wait",
                            !.co[c].wake = scraper.now + (MinInterval(scraper.kind) - time_diff)]
                   ELSE Send(Passed(called, c), c)
    /\ UNCHANGED <<task_vars, call, fetch, semaphore, updaters>>

\* asyncio.sleep(wait_time) of _rate_limit_wait is over
LimitWake ==
    /\ scraper.kind # "none"
    /\ \E c \in DOMAIN scraper.co :
          /\ scraper.co[c].pc = "limit_wait"
          /\ scraper.co[c].wake <= scraper.now
          /\ scraper' = Send(Passed(scraper, c), c)
    /\ UNCHANGED <<task_vars, call, fetch, semaphore, updaters>>

\* the response, or the exception, of one send; failures counts the sends
\* that did not end in a status 200, explored up to MaxLoad coroutines and
\* failed sends together
Respond ==
    /\ scraper.kind # "none"
    /\ \E c \in DOMAIN scraper.co, status \in {"200", "429", "other", "exception"} :
          /\ scraper.co[c].pc = "sending"
          /\ status # "200" =>
                Cardinality(DOMAIN scraper.co) + scraper.failures < MaxLoad
          /\ LET co == scraper.co[c]
                 failed_ == co.retries + 1
             IN scraper' = [scraper EXCEPT
                   !.failures = IF status = "200" THEN @ ELSE @ + 1,
                   !.co[c] =
                   CASE status = "200" -> [co EXCEPT !.pc = "returned", !.result = "body"]
                     [] status = "other" -> [co EXCEPT !.pc = "returned", !.result = "None"]
                     [] status = "429" ->
                           [co EXCEPT !.pc = "backoff",
                                      !.wake = scraper.now + RetryWait(scraper.kind, co.retries),
                                      !.wait = RetryWait(scraper.kind, co.retries),
                                      !.waits = co.retries,
                                      !.streak = @ + 1,
                                      !.retries = failed_]
                     [] OTHER ->
                           [co EXCEPT !.pc = "backoff",
                                      !.wake = IF failed_ < MAX_RETRIES
                                               THEN scraper.now + ErrorDelay(scraper.kind, failed_)
                                               ELSE scraper.now,
                                      !.streak = 0,
                                      !.retries = failed_]]
    /\ UNCHANGED <<task_vars, call, fetch, semaphore, updaters>>

\* the sleep after a failed send is over: while retries < MAX_RETRIES sends
\* again, otherwise return None
BackoffWake ==
    /\ scraper.kind # "none"
    /\ \E c \in DOMAIN scraper.co :
          /\ scraper.co[c].pc = "backoff"
          /\ scraper.co[c].wake <= scraper.now
          /\ scraper' = IF scraper.co[c].retries < MAX_RETRIES
                        THEN Send(scraper, c)
                        ELSE [scraper EXCEPT !.co[c].pc = "returned",
                                             !.co[c].result = "None"]
    /\ UNCHANGED <<task_vars, call, fetch, semaphore, updaters>>

\* Time passes: to the next moment a sleep ends, or by one tick while a
\* coroutine may still call.  No sleep is overslept.
Advance ==
    /\ scraper.kind # "none"
    /\ LET Asleep == {c \in DOMAIN scraper.co :
                         scraper.co[c].pc \in {"limit_wait", "backoff"}}
       IN /\ \A c \in Asleep : scraper.co[c].wake > scraper.now
          /\ \/ /\ Asleep # {}
                /\ \E c \in Asleep :
                      /\ \A o \in Asleep : scraper.co[c].wake <= scraper.co[o].wake
                      /\ scraper' = [scraper EXCEPT !.now = scraper.co[c].wake]
             \/ /\ scraper.now < MaxClock
                /\ \E c \in DOMAIN scraper.co : scraper.co[c].pc = "idle"
                /\ scraper' = [scraper EXCEPT !.now = @ + 1]
    /\ UNCHANGED <<task_vars, call, fetch, semaphore, updaters>>

RequestNext ==
    \/ ScraperInit
    \/ RequestCall
    \/ LimitWake
    \/ Respond
    \/ BackoffWake
    \/ Advance

RequestSpec == CallInit /\ [][RequestNext]_vars

\* ------------------------------------------------------ price ingestion
\* update_yahoo_finance_data of the collector, run as a task of its own, for
\* one symbol of its result: the save loop and the commit
IngestYahoo ==
    /\ task = "none" /\ runs < MaxRuns
    /\ variant = "collector"
    /\ runs' = runs + 1
    /\ \E s \in {x \in Stocks : active[x]}, history \in Histories :
          saved' = Added(SaveHistory(prices, s, history))
    /\ outcome' = [task |-> "yahoo", kind |-> "returned", success |-> TRUE]
    /\ UNCHANGED <<variant, profile, indicators, logs, queue, task, pc, retries,
                   log_entry, results, stage, sess, ind_result, faults, delays, failed,
                   visits, batch_exc, idem>>
    /\ UNCHANGED <<call, fetch, semaphore, updaters, scraper>>

IngestNext ==
    \/ IngestYahoo
    \/ ManualUpdate

IngestSpec == Init /\ [][IngestNext]_vars

TypeOK ==
    /\ variant \in {"backend", "collector"}
    /\ task \in {"none", "batch", "daily", "all"}
    /\ retries \in 0..max_retries
    /\ faults \in 0..MaxFaults
    /\ runs \in 0..MaxRuns

\* ------------------------------------------------------------ properties
\* the stocks the running (or last) indicator task listed
Listed == {stage.list[k] : k \in 1..Len(stage.list)}

\* positions of the rows of a table stored for a stock and a date
RowsOf(table, s, d) ==
    {i \in 1..Len(table) :
        table[i]["stock_id"] = IntVal(s) /\ table[i]["trade_date"] = DateVal(d)}

\* what the daily task reads and computes for a stock from the stored bars
DailyHistory(s) == LatestBars(prices, s, TargetDate, HistoryLimit)
DailyComputed(s) == Computed(DailyHistory(s), "daily", TargetDate).at
Eligible(s) == Len(DailyHistory(s)) >= MinBars /\ DOMAIN DailyComputed(s) # {}

\* a stored row an update has written: the rows of the start hold no
\* computed average
Touched(row) == IsNum(row["ma_5"]) /\ row["ma_5"] # OtherVal

\* the daily indicator task has returned success and no task started since
DailyDone == stage.done /\ stage.kind = "daily" /\ ind_result.set /\ ind_result.success

\* C1: after two or more successive complete runs of the per-date update on
\* unchanged bars, the indicator table is exactly what the first run left.
C1_SecondRunChangesNothing == idem.streak >= 2 => indicators = idem.snap

C1_TwoRunsOverUpdatedRow ==
    /\ idem.streak >= 2
    /\ \E i \in 1..Len(indicators) : Touched(indicators[i])

\* C2: between and after updates that run one at a time, the indicator table
\* holds at most one row per (stock_id, trade_date).
C2_OneRowPerStockAndDate ==
    \A i, j \in 1..Len(indicators) :
        (/\ indicators[i]["stock_id"] = indicators[j]["stock_id"]
         /\ indicators[i]["trade_date"] = indicators[j]["trade_date"]) => i = j

C2_StoredDateUpdatedInPlace ==
    /\ task = "none" /\ runs = MaxRuns
    /\ \E s \in Stocks :
          /\ Cardinality(RowsOf(indicators, s, TargetDate)) = 1
          /\ \A i \in RowsOf(indicators, s, TargetDate) : Touched(indicators[i])

\* C3: when the daily update commits, every row stored before it is changed
\* in exactly the columns for which the update computed a non-null value for
\* that row's stock, which now hold that value as the column stores it; every
\* other column, and every row the update did not process, is as it was.
C3_OverwritesExactlyNonNull ==
    [][(/\ pc = "ind_loop" /\ stage.kind = "daily"
        /\ stage'.done /\ ind_result'.success)
       => /\ Len(indicators') >= Len(indicators)
          /\ \A i \in 1..Len(indicators) :
               LET s == indicators[i]["stock_id"].v
                   updated == /\ indicators[i]["trade_date"] = DateVal(TargetDate)
                              /\ s \in Listed /\ s \notin failed /\ Eligible(s)
               IN \A col \in TechnicalIndicator :
                     indicators'[i][col] =
                        IF updated /\ col \in DOMAIN DailyComputed(s)
                                   /\ DailyComputed(s)[col] # None
                        THEN IF col \in IndicatorColumns
                             THEN StoreValue(col, DailyComputed(s)[col])
                             ELSE DailyComputed(s)[col]
                        ELSE indicators[i][col]]_vars

C3_RowPartlyOverwritten ==
    /\ DailyDone
    /\ \E i \in 1..Len(indicators) :
          /\ Touched(indicators[i])
          /\ indicators[i]["ma_60"] = OtherVal
          /\ DailyComputed(indicators[i]["stock_id"].v)["ma_60"] = None

\* C4: after a complete daily update in which nothing was made to fail, every
\* listed stock with at least MinBars bars, one of them on the target date,
\* has exactly one row for the target date.
C4_MissingRowInserted ==
    (DailyDone /\ ~stage.faulted)
    => \A s \in Listed :
          Eligible(s) => Cardinality(RowsOf(indicators, s, TargetDate)) = 1

BatchOver == task = "none" /\ outcome.task = "batch"

\* C6: when a batch attempt whose indicator stage ran to its end has
\* completed, the stage's result counts the stocks that were updated without
\* raising and the attempt's log row records the number of stocks whose
\* update raised as records_failed.
C6_LogCountsFailures ==
    (/\ BatchOver /\ outcome.success
     /\ stage.caller = "batch" /\ stage.done /\ ind_result.success)
    => /\ ind_result.processed_count =
             Cardinality({s \in Listed \ failed : Eligible(s)})
       /\ logs[log_entry.idx].records_failed = Cardinality(failed)

\* C7: a batch that ends unsuccessfully on its last permitted attempt has
\* returned (not raised), and the log row that attempt created, once it got
\* to create one, is stored with status failed.
C7_ExhaustedBatchReturnsFailure ==
    (BatchOver /\ ~outcome.success /\ retries = max_retries)
    => /\ outcome.kind = "returned"
       /\ log_entry.local
          => /\ log_entry.idx \in 1..Len(logs)
             /\ logs[log_entry.idx].status = "failed"

C9_StageFailureFailsAttempt ==
    (BatchOver /\ results.technical_indicators = "fail")
    => /\ ~outcome.success
       /\ log_entry.idx \in 1..Len(logs)
       /\ logs[log_entry.idx].status = "failed"

\* C10: no stock is visited twice by one run of the indicator task, and a
\* batch attempt in which stocks raised but nothing else did ends returned
\* and successful, its log row completed and no retry scheduled by it.
C10_InstrumentFailuresNeverRetry ==
    /\ \A s \in Stocks : visits[s] <= 1
    /\ (/\ BatchOver /\ stage.caller = "batch" /\ stage.done
        /\ ind_result.success /\ failed # {} /\ ~batch_exc)
       => /\ outcome.kind = "returned" /\ outcome.success
          /\ logs[log_entry.idx].status = "completed"
          /\ Len(delays) = retries

C10_BatchCompletedDespiteFailures ==
    /\ BatchOver /\ stage.caller = "batch" /\ stage.done
    /\ ind_result.success /\ failed # {} /\ ~batch_exc
    /\ logs[log_entry.idx].status = "completed"

\* C11: a log row in status processing belongs to the batch attempt that is
\* running: once an attempt has ended, by returning, by raising or by
\* scheduling its retry, the row it created is completed or failed.
C11_NoLogLeftProcessing ==
    \A i \in 1..Len(logs) :
        logs[i].status = "processing"
        => /\ task = "batch" /\ pc # "retry_wait"
           /\ log_entry.local /\ log_entry.idx = i

\* C12: when the daily indicator task has ended, however it ended, every
\* stock whose loop body ran to the end on a stored row has that row
\* persisted with each non-null computed value as its column stores it.
C12_UpdatedRowsPersist ==
    (stage.done /\ stage.kind = "daily" /\ ind_result.set)
    => \A s \in Listed :
          (visits[s] >= 1 /\ s \notin failed /\ Eligible(s))
          => \A i \in RowsOf(indicators, s, TargetDate) :
                \A col \in IndicatorColumns \cap DOMAIN DailyComputed(s) :
                   DailyComputed(s)[col] # None
                   => indicators[i][col] = StoreValue(col, DailyComputed(s)[col])

\* C13 as stated: a listed stock with fewer than MinBars bars on or before
\* the target date is reported as failed by the daily task.
C13_ShortHistoryReportedFailed ==
    DailyDone
    => \A s \in Listed : Len(DailyHistory(s)) < MinBars => s \in failed

\* C13, amended: for such a stock the daily task modifies and adds no row,
\* and it enters the except clause (the only place that logs an error for a
\* stock) only when its loop body was made to raise; the task still visits
\* every listed stock.
C13_ShortHistorySkippedSilently ==
    stage.kind = "daily"
    => \A s \in Listed :
          Len(DailyHistory(s)) < MinBars
          => /\ \A e \in sess.dirty : e.row["stock_id"] # IntVal(s)
             /\ \A k \in 1..Len(sess.pending) : sess.pending[k]["stock_id"] # IntVal(s)
             /\ s \in failed => stage.faulted
             /\ DailyDone => \A t \in Listed : visits[t] = 1

C13_ShortHistoryThenSiblingVisited ==
    /\ DailyDone /\ ~stage.faulted
    /\ \E s, t \in Listed :
          /\ s < t
          /\ Len(DailyHistory(s)) < MinBars /\ s \notin failed
          /\ RowsOf(indicators, s, TargetDate) = {}
          /\ visits[s] = 1 /\ visits[t] = 1

\* C14: the stock query of the daily update lists every active stock that
\* has a bar on the target date, whatever their number.
C14_EveryEligibleStockListed ==
    call.fn = "stocks_with_data"
    => /\ Len(call.list) = call.universe
       /\ \A s \in 1..call.universe : \E k \in 1..Len(call.list) : call.list[k] = s

\* C15: at every moment of get_multiple_stocks at most
\* MAX_CONCURRENT_REQUESTS symbols are being fetched, and the semaphore
\* counts the places left.
C15_FetchesWithinCeiling ==
    /\ Cardinality({y \in Symbols : fetch[y] = "fetching"}) <= MAX_CONCURRENT_REQUESTS
    /\ semaphore = MAX_CONCURRENT_REQUESTS
                   - Cardinality({y \in Symbols : fetch[y] = "fetching"})

C15_CeilingReachedWithOneWaiting ==
    /\ Cardinality({y \in Symbols : fetch[y] = "fetching"}) = MAX_CONCURRENT_REQUESTS
    /\ \E y \in Symbols : fetch[y] = "waiting"

C17_FinalValueIsMean ==
    (call.fn = "calculate_ma" /\ call.n >= call.period)
    => LET xs == Closes(call.shape, call.n)
           first == call.n - call.period + 1
           sum == SumRange(xs, first, call.n)
           ma == call.lists[1][call.n]
       IN /\ IsNum(ma)
          /\ call.period * ma.v <= sum /\ sum < call.period * ma.v + call.period
          /\ MinRange(xs, first, call.n) <= ma.v
          /\ ma.v <= MaxRange(xs, first, call.n)

\* C18: for a series of 15 or more closes the last value of the 14-period
\* calculate_rsi is a number from 0 to 100.
C18_FinalValueWithinRange ==
    (call.fn = "calculate_rsi" /\ call.period = 14 /\ call.n >= 15)
    => /\ IsNum(call.lists[1][call.n])
       /\ 0 <= call.lists[1][call.n].v
       /\ call.lists[1][call.n].v <= 100 * Unit

C18_ValueStrictlyInside ==
    /\ call.fn = "calculate_rsi" /\ call.period = 14 /\ call.n >= 15
    /\ 0 < call.lists[1][call.n].v
    /\ call.lists[1][call.n].v < 100 * Unit

\* C19: for every buffer and every date D with a bar in it,
\* calculate_indicator_for_date(buffer, D) has the same indicator fields,
\* each with the same value, as the last element of every list of
\* calculate_all_indicators on the buffer cut to the bars on or before D.
C19_SameAsLatestOfRestricted ==
    call.fn = "calculate_indicator_for_date"
    => LET buffer == SampleStockData(call.shape, call.n)
           Restricted(data, d) ==
               [f \in DOMAIN data |->
                   SubSeq(data[f], 1, Cardinality({i \in 1..Len(data.dates) :
                                                      data.dates[i] <= d}))]
           Latest(all_) ==
               [key \in {x \in DOMAIN all_ : all_[x] # <<>>} |->
                   all_[key][Len(all_[key])]]
           Same(row, latest) ==
               /\ DOMAIN row \ {"trade_date"} = DOMAIN latest
               /\ \A key \in DOMAIN latest : row[key] = latest[key]
       IN Same(call.row,
               Latest(calculate_all_indicators(Restricted(buffer, call.target_date))))

\* C20: get_latest_signals reports 'buy' exactly when the buy bucket has more
\* entries than the sell bucket, 'sell' exactly when the sell bucket has
\* more, 'neutral' on a tie, and a strength of |buy count - sell count|; with
\* an RSI of 25, the MACD above its signal line and no other indicator, the
\* buy bucket holds one entry for each condition, the overall signal is
\* 'buy' and the strength is 2.
C20_OverallFollowsBuckets ==
    call.fn = "get_latest_signals"
    => LET buy_count == Len(call.signals.buy_signals)
           sell_count == Len(call.signals.sell_signals)
           Last(key) == call.indicators[key][Len(call.indicators[key])]
       IN /\ (call.signals.overall_signal = "buy") <=> (buy_count > sell_count)
          /\ (call.signals.overall_signal = "sell") <=> (sell_count > buy_count)
          /\ (call.signals.overall_signal = "neutral") <=> (buy_count = sell_count)
          /\ call.signals.signal_strength = Abs(buy_count - sell_count)
          /\ (/\ DOMAIN call.indicators = {"rsi_14", "macd", "macd_signal"}
              /\ call.indicators["rsi_14"] # <<>>
              /\ Last("rsi_14") = Num(25 * Unit)
              /\ IsNum(Last("macd")) /\ IsNum(Last("macd_signal"))
              /\ Last("macd").v > Last("macd_signal").v)
             => /\ call.signals.buy_signals = <<"RSI buy", "MACD buy">>
                /\ call.signals.sell_signals = <<>>
                /\ call.signals.overall_signal = "buy"
                /\ call.signals.signal_strength = 2

C20_OversoldAboveSignalLine ==
    /\ call.fn = "get_latest_signals"
    /\ DOMAIN call.indicators = {"rsi_14", "macd", "macd_signal"}
    /\ call.indicators["rsi_14"] = <<None, Num(25 * Unit)>>
    /\ call.indicators["macd"][2] = Num(10)
    /\ call.indicators["macd_signal"][2] = Num(0)
    /\ call.signals.signal_strength = 2

\* C21: whenever MA20 and MA60 are both present for the latest date, the
\* signals of the technical analysis hold exactly one moving-average entry:
\* buy when close > MA20 > MA60, sell when close < MA20 < MA60, neutral in
\* every other case.
C21_OneMovingAverageEntry ==
    (call.fn = "get_technical_analysis" /\ IsNum(call.ma_20) /\ IsNum(call.ma_60))
    => LET expected ==
               IF call.latest_price > call.ma_20.v /\ call.ma_20.v > call.ma_60.v
               THEN "buy"
               ELSE IF call.latest_price < call.ma_20.v /\ call.ma_20.v < call.ma_60.v
               THEN "sell"
               ELSE "neutral"
           In(seq, b) == \E i \in 1..Len(seq) : seq[i] = "MA " \o b
           Holds(b) == CASE b = "buy" -> In(call.signals.buy_signals, b)
                         [] b = "sell" -> In(call.signals.sell_signals, b)
                         [] b = "neutral" -> In(call.signals.neutral_signals, b)
       IN \A b \in {"buy", "sell", "neutral"} : Holds(b) <=> (b = expected)

\* C22: bar records in which open, high, low, close or volume is missing, or
\* a price is not positive, give no series, and no indicator row is computed
\* from them.
C22_InvalidBarsGiveNoSeries ==
    (/\ call.fn = "prepare_stock_data_for_indicators"
     /\ \/ call.defect = "missing"
        \/ call.defect \in {"zero", "negative"} /\ call.field # "volume")
    => call.series = {} /\ DOMAIN call.row = {}

\* C23: for each moving-average length L of 5, 10, 20, 60, 120 and 240 the
\* row the update computes for the target date holds that moving average
\* whenever the stock has at least L stored bars on or before the date, and
\* not otherwise.
C23_AveragePresentIffEnoughBars ==
    call.fn = "calculate_daily_technical_indicators"
    => LET Present(key) == key \in DOMAIN call.row /\ IsNum(call.row[key])
       IN /\ Present("ma_5") <=> call.n >= 5
          /\ Present("ma_10") <=> call.n >= 10
          /\ Present("ma_20") <=> call.n >= 20
          /\ Present("ma_60") <=> call.n >= 60
          /\ Present("ma_120") <=> call.n >= 120
          /\ Present("ma_240") <=> call.n >= 240

\* C24: with fast 12, slow 26 and signal 9 the main line, the signal line
\* and the histogram calculate_macd gives for the final date are all None
\* whenever fewer than 35 closes are available, and all numbers from 35
\* closes on.
C24_AbsentUntilSlowPlusSignal ==
    (call.fn = "calculate_macd" /\ call.period = 26)
    => \A j \in 1..3 : IF call.n < 26 + 9 THEN call.lists[j][call.n] = None
                       ELSE IsNum(call.lists[j][call.n])

\* C25: for every period p >= 1 and high, low and close lists of one length
\* n >= p, calculate_support_resistance gives at each position from the p-th
\* on the lowest low and the highest high of the last p bars, None before
\* it, and support <= resistance wherever both are present if every bar has
\* high >= low.
C25_LevelsAreWindowExtremes ==
    (call.fn = "calculate_support_resistance" /\ call.n >= call.period)
    => LET support == call.lists[1]
           resistance == call.lists[2]
           Window(i) == (i - call.period + 1)..i
       IN /\ Len(support) = call.n /\ Len(resistance) = call.n
          /\ \A i \in 1..call.n :
                IF i < call.period
                THEN support[i] = None /\ resistance[i] = None
                ELSE /\ IsNum(support[i]) /\ IsNum(resistance[i])
                     /\ \A j \in Window(i) : /\ support[i].v <= call.low[j]
                                             /\ resistance[i].v >= call.high[j]
                     /\ \E j \in Window(i) : support[i].v = call.low[j]
                     /\ \E j \in Window(i) : resistance[i].v = call.high[j]
          /\ (\A i \in 1..call.n : call.high[i] >= call.low[i])
             => \A i \in call.period..call.n : support[i].v <= resistance[i].v

C25_LevelsAfterNonePrefix ==
    /\ call.fn = "calculate_support_resistance"
    /\ call.period >= 2 /\ call.n > call.period
    /\ \A i \in 1..call.n : call.high[i] >= call.low[i]
    /\ call.lists[1][call.period - 1] = None
    /\ IsNum(call.lists[1][call.n])
    /\ call.lists[1][call.n].v < call.lists[2][call.n].v
    /\ call.lists[1][call.n] # call.lists[1][call.period]

\* C26: while two indicator updates of the same date run at the same time,
\* each with its own session, the table never holds two rows for one stock
\* and the target date, and every row that was stored at the start is still
\* the row of its own stock: unchanged, or merged with the indicators
\* computed from that stock's own bars.
C26_NoDuplicateUnderRace ==
    /\ \A s \in Stocks : Cardinality(RowsOf(indicators, s, TargetDate)) <= 1
    /\ \A i \in 1..Min2(Len(indicators), Len(InitIndicators(profile, NumStocks))) :
          LET before == InitIndicators(profile, NumStocks)[i]
          IN \/ indicators[i] = before
             \/ \E s \in Stocks :
                   /\ before["stock_id"] = IntVal(s)
                   /\ indicators[i] = StoreRow(MergeRow(before, DailyComputed(s)))

\* both updates ran their loop bodies before either committed and both have
\* committed; they changed the same stored row, and both reached the insert
\* for a stock that had no row
C26_BothCheckedThenCommitted ==
    /\ \A u \in Updaters : updaters[u].pc = "done"
    /\ \E u \in Updaters : updaters[u].overlapped
    /\ \E i \in 1..Len(indicators) :
          /\ \A u \in Updaters : \E e \in updaters[u].sess.dirty : e.idx = i
          /\ indicators[i] # InitIndicators(profile, NumStocks)[i]
    /\ \E s \in Stocks :
          /\ \A u \in Updaters : \E k \in 1..Len(updaters[u].list) : updaters[u].list[k] = s
          /\ Eligible(s)
          /\ RowsOf(InitIndicators(profile, NumStocks), s, TargetDate) = {}

\* C27: within one attempt of daily_data_update the stages run in the order
\* Yahoo, TWSE, indicators.  The indicator stage starts only when both
\* ingestion stages have returned; a stage that returns, with success or
\* without, is followed by the next stage (only an exception injected into
\* update_state or storage ends the attempt early); and the log row is
\* set to 'completed' only when the indicator stage has returned.
C27_StagesInOrder ==
    [][/\ (task = "batch" /\ pc' = "ind_start" /\ pc # "ind_start") =>
              /\ pc = "ind_call"
              /\ results.yahoo_finance # "unset"
              /\ results.twse_data # "unset"
       /\ (task = "batch" /\ pc = "yahoo" /\ (faults' = faults \/ results' # results)) =>
              pc' = "twse"
       /\ (task = "batch" /\ pc = "twse" /\ faults' = faults) => pc' = "ind_call"
       /\ (task = "batch" /\ pc' = "twse" /\ pc # "twse") => pc = "yahoo"
       /\ (task = "batch" /\ pc' = "ind_call" /\ pc # "ind_call") => pc = "twse"
       /\ \A i \in 1..Len(logs) :
             (logs'[i].status = "completed" /\ logs[i].status # "completed") =>
                 /\ pc = "final"
                 /\ results.technical_indicators # "unset"]_vars

\* C28: on one scraper instance any two consecutive sends are at least
\* min_interval = 60 / rate_limit apart, whichever coroutines started them,
\* and request_count is the number of calls of _make_request that have
\* passed the limiter (every call made, less those still asleep in it).
C28_RequestsSpacedAndCounted ==
    scraper.kind # "none" =>
        /\ scraper.closest >= MinInterval(scraper.kind)
        /\ scraper.request_count =
              scraper.started -
              Cardinality({c \in DOMAIN scraper.co : scraper.co[c].pc = "limit_wait"})

\* C29 (as stated): a call of _make_request makes at most MAX_RETRIES sends;
\* it returns the body on the first status 200 and None otherwise, and the
\* wait after the k-th consecutive 429 (k from 0) is 2^k seconds.
C29_WaitIsTwoToTheStreak ==
    scraper.kind # "none" =>
        \A c \in DOMAIN scraper.co :
            LET co == scraper.co[c]
            IN /\ co.attempts <= MAX_RETRIES
               /\ co.pc = "returned" => co.result \in {"body", "None"}
               /\ co.wait # NoTime => co.wait = (2 ^ (co.streak - 1)) * Ticks

\* C29 (amended): a call of _make_request makes at most MAX_RETRIES sends and
\* each failed send but a non-429 status counts as one retry; it returns the
\* body on a status 200, None on any other non-429 status, and None when
\* MAX_RETRIES sends have failed.  The wait after a 429 is 2^r seconds in the
\* Yahoo scraper and 2 * 2^r seconds in the TWSE scraper, r being the number
\* of sends of this call that failed before it, by a 429 or by an exception.
C29_WaitIsTwoToTheRetries ==
    scraper.kind # "none" =>
        \A c \in DOMAIN scraper.co :
            LET co == scraper.co[c]
            IN /\ co.attempts <= MAX_RETRIES
               /\ co.retries <= co.attempts
               /\ co.pc = "returned" =>
                     /\ co.result \in {"body", "None"}
                     /\ co.retries < MAX_RETRIES => co.retries = co.attempts - 1
                     /\ co.retries = MAX_RETRIES =>
                           co.result = "None" /\ co.attempts = MAX_RETRIES
               /\ co.wait # NoTime =>
                     /\ co.waits < co.retries
                     /\ co.wait = (2 ^ co.waits) * Ticks *
                                     (IF scraper.kind = "yahoo" THEN 1 ELSE 2)

\* a call that was answered by an exception and then by two 429s has used
\* up its sends, slept after the last one and returned None
C29_GaveUpAfterMixedFailures ==
    /\ scraper.kind = "yahoo"
    /\ \E c \in DOMAIN scraper.co :
          /\ scraper.co[c].pc = "returned"
          /\ scraper.co[c].result = "None"
          /\ scraper.co[c].attempts = MAX_RETRIES
          /\ scraper.co[c].streak = 2
          /\ scraper.co[c].wait = 4 * Ticks

\* C30: after any sequence of price-ingestion runs, whatever dates the
\* fetched histories carry and however often, no two rows of daily_prices
\* have the same stock_id and trade_date.
C30_OneBarPerStockAndDate ==
    \A i, j \in 1..Len(prices) :
        (prices[i].stock_id = prices[j].stock_id /\
         prices[i].trade_date = prices[j].trade_date) => i = j

====
